---- MODULE Spec2Model ----
(***************************************************************************)
(* Process-lifecycle supervisor of the Minecraft server manager.           *)
(*                                                                         *)
(* Two state machines are modelled.                                        *)
(*   SpecPH  one ProcessHandler object (src/core/process_handler.py) and   *)
(*           the tasks that call start / stop / kill / restart on it,      *)
(*           its reader task, and the operating-system processes.          *)
(*   SpecSM  the ServerManager (src/core/server_manager.py) with the       *)
(*           ProcessHandler objects it creates, the LogWatcher's player    *)
(*           set, the AutoShutdownManager countdowns, the RCON connection  *)
(*           flag and the BackupManager restore.                           *)
(* The components are also followed on their own: SpecRC / SpecRCL the     *)
(* RconClient, SpecAS the AutoShutdownManager, SpecCL / SpecLW the         *)
(* LogWatcher, SpecBM / SpecROT the BackupManager, SpecPK the RconPacket   *)
(* bytes, SpecST one ServerManager.stop, SpecSC send_command, SpecDP one   *)
(* callback dispatch, SpecRO one _read_output task with its two pipes.     *)
(* Every await of the source is a point where another task may run; an     *)
(* action is the code between two awaits.                                  *)
(***************************************************************************)
EXTENDS Integers, Sequences, FiniteSets, TLC

(* ---------------------------- bounds ----------------------------------- *)
\* number of processes one ProcessHandler may spawn in a run
MaxStarts == 2
\* number of tasks calling the ProcessHandler operations
NCallers == 2
\* number of registered exit callbacks
NCallbacks == 2

None == 0
Gens == 1..MaxStarts
Callers == 1..NCallers
Callbacks == 1..NCallbacks

\* exit statuses: clean, crash, killed by SIGTERM, killed by SIGKILL
SIGTERM_CODE == -15
SIGKILL_CODE == -9
ExitCodes == {0, 1, SIGTERM_CODE, SIGKILL_CODE}
NoCode == 99

\* exit callback 1 is a plain function, exit callback 2 returns a coroutine
\* that the reader awaits (process_handler.py:294-296)
CbSuspends(i) == i = 2

VARIABLES
  process,      \* ProcessHandler._process: None or the spawned process
  is_running,   \* ProcessHandler._state.is_running
  exit_code,    \* ProcessHandler._state.exit_code
  reader_task,  \* ProcessHandler._reader_task: None or the reader of a process
  os,           \* the operating system's view of every spawned process
  reader,       \* the _read_output task started for every spawned process
  exit_calls,   \* per process and exit callback: the codes it was called with
  caller,       \* the tasks calling start / stop / kill / restart
  nextGen,      \* number of processes spawned so far
  serial,       \* the callers keep the single-writer discipline of the contract
  sig_term,     \* history: SIGTERM signals stop() delivered to a live process
  sig_kill      \* history: SIGKILL signals stop() delivered to a live process

phVars == <<process, is_running, exit_code, reader_task, os, reader,
            exit_calls, caller, nextGen, serial, sig_term, sig_kill>>

\* the state of the ServerManager and of the components it owns
VARIABLES
  active_server,   \* ServerManager._active_server: None or a server
  sm_process,      \* ServerManager._process: None or a ProcessHandler
  hand,            \* the ProcessHandler objects, their process and reader
  server_ready,    \* ServerManager._server_ready (asyncio.Event)
  online_players,  \* LogWatcher._online_players of the current classifier
  rcon,            \* the connection of the current RconClient: "none", "open",
                   \* or "closing" (close() called, _writer not yet None)
  connect_pending, \* a _handle_server_ready task is in its sleep(2)
  countdown_task,  \* AutoShutdownManager._countdown_task of the current manager
  backup_lock,     \* BackupManager._lock of the current engine: holder or None
  world,           \* the world directory: "ok", or "restoring" while a restore
                   \* deletes and extracts it
  task,            \* the user tasks and the countdown tasks
  nh,              \* number of ProcessHandler objects created so far
  mserial,         \* the user tasks serialize their calls
  stray_ready      \* history: the ready signal was set, and the start callbacks
                   \* fired, for a handler that was not the running current one

smVars == <<active_server, sm_process, hand, server_ready, online_players,
            rcon, connect_pending, countdown_task, backup_lock, world,
            task, nh, mserial, stray_ready>>

\* the state of the components checked on their own
VARIABLES
  rc,              \* one RconClient, its callers and the server it talks to
  asm,             \* one AutoShutdownManager and the countdown tasks it made
  lw,              \* one LogWatcher, the lines it was given and its listener
  bm,              \* the BackupManagers of one server, their callers, the disk
  pk,              \* one RconPacket on its way through encode and decode
  st,              \* one ServerManager.stop() call and the process it stops
  sc,              \* one ServerManager.send_command() call, the client, stdin
  dp,              \* one dispatch of an event to the callbacks registered
  ro               \* one _read_output task, the two pipes and the process

\* the single calls followed on their own
callVars == <<st, sc, dp, ro>>

compVars == <<rc, asm, lw, bm, pk, callVars>>

vars == <<phVars, smVars, compVars>>

\* what the ProcessHandler actions, and the ServerManager actions, leave alone
phRest == <<smVars, compVars>>
smRest == <<phVars, compVars>>

IdleCaller == [fn |-> "idle", pc |-> "idle", outer |-> "none", target |-> None,
               lastOp |-> "none", ret |-> "none", lastTarget |-> None]

\* ProcessHandler.is_running (property)
IsRunning == is_running /\ process # None

Alive(g) == g \in Gens /\ os[g].st = "alive"
Dead(g) == g \in Gens /\ os[g].st = "dead"

ReaderDone(g) == reader[g].pc \in {"none", "done", "cancelled", "failed"}

PHInit ==
  /\ process = None
  /\ is_running = FALSE
  /\ exit_code = NoCode
  /\ reader_task = None
  /\ os = [g \in Gens |-> [st |-> "none", code |-> NoCode]]
  /\ reader = [g \in Gens |-> [pc |-> "none", target |-> None, idx |-> 0]]
  /\ exit_calls = [g \in Gens |-> [i \in Callbacks |-> <<>>]]
  /\ caller = [c \in Callers |-> IdleCaller]
  /\ nextGen = 0
  /\ sig_term = [g \in Gens |-> 0]
  /\ sig_kill = [g \in Gens |-> 0]

(* ------------------- ProcessHandler: helper operators ------------------ *)

\* the record a caller task is left with when its operation has returned
Ret(op, r, tgt) ==
  [IdleCaller EXCEPT !.lastOp = op, !.ret = r, !.lastTarget = tgt]

\* stop() has finished with result r; inside restart() the caller goes on to
\* the settle delay (process_handler.py:219-220), an exception propagates
StopResult(outer, r, tgt) ==
  IF outer = "restart" /\ r # "raised"
  THEN [IdleCaller EXCEPT !.fn = "restart", !.outer = "restart", !.pc = "sleep"]
  ELSE Ret(IF outer = "restart" THEN "restart" ELSE "stop", r, tgt)

\* Task.cancel() on the task _reader_task refers to, unless it is done
CancelReader(rd, rt) ==
  IF rt # None /\ rd[rt].pc \in {"streams", "wait", "cb"}
  THEN [rd EXCEPT ![rt].pc = "cancelled"]
  ELSE rd

\* the first exit callback at or after index from that suspends the reader
FirstSuspend(from) ==
  IF \E i \in Callbacks : i >= from /\ CbSuspends(i)
  THEN CHOOSE i \in Callbacks :
         /\ i >= from /\ CbSuspends(i)
         /\ \A j \in Callbacks : (j >= from /\ CbSuspends(j)) => i <= j
  ELSE 0

\* the exit callbacks invoked by one run of the callback loop from index from
Invoked(from) ==
  {i \in Callbacks : i >= from /\ (FirstSuspend(from) = 0 \/ i <= FirstSuspend(from))}

(* ------------------- ProcessHandler: the operations -------------------- *)

\* a caller task is free to begin an operation; callers that serialize
\* their calls behave as one task calling in sequence
Free(c) ==
  /\ caller[c].fn = "idle"
  /\ serial => c = 1

\* task 1 calls every operation; the other tasks only ever call stop()
Primary(c) == c = 1

\* ProcessHandler.start up to the await of create_subprocess_exec
StartEnter(c, outer) ==
  /\ IsRunning \/ nextGen < MaxStarts
  /\ caller' = [caller EXCEPT ![c] =
        IF IsRunning
        THEN Ret(IF outer = "restart" THEN "restart" ELSE "start", "false", None)
        ELSE [IdleCaller EXCEPT !.fn = "start", !.outer = outer, !.pc = "spawning"]]
  /\ UNCHANGED <<process, is_running, exit_code, reader_task, os, reader,
                 exit_calls, nextGen, serial, sig_term, sig_kill>>

StartCall(c) ==
  /\ Free(c) /\ Primary(c)
  /\ StartEnter(c, "none")
  /\ UNCHANGED phRest

\* create_subprocess_exec succeeded: record the state, start the reader
SpawnDone(c) ==
  /\ caller[c].fn = "start" /\ caller[c].pc = "spawning"
  /\ nextGen < MaxStarts
  /\ LET g == nextGen + 1 IN
       /\ nextGen' = g
       /\ os' = [os EXCEPT ![g].st = "alive"]
       /\ process' = g
       /\ is_running' = TRUE
       /\ exit_code' = NoCode
       /\ reader_task' = g
       /\ reader' = [reader EXCEPT ![g] = [pc |-> "streams", target |-> None, idx |-> 0]]
       /\ caller' = [caller EXCEPT ![c] =
             Ret(IF caller[c].outer = "restart" THEN "restart" ELSE "start", "true", g)]
  /\ UNCHANGED <<exit_calls, serial, sig_term, sig_kill>>
  /\ UNCHANGED phRest

\* create_subprocess_exec raised: state reset, RuntimeError to the caller
SpawnFail(c) ==
  /\ caller[c].fn = "start" /\ caller[c].pc = "spawning"
  /\ is_running' = FALSE
  /\ exit_code' = NoCode
  /\ caller' = [caller EXCEPT ![c] =
        Ret(IF caller[c].outer = "restart" THEN "restart" ELSE "start", "raised", None)]
  /\ UNCHANGED <<process, reader_task, os, reader, exit_calls, nextGen,
                 serial, sig_term, sig_kill>>
  /\ UNCHANGED phRest

\* ProcessHandler.stop up to the await of stdin.drain() inside send_command
StopEnter(c, outer) ==
  /\ caller' = [caller EXCEPT ![c] =
        IF ~IsRunning
        THEN StopResult(outer, "false", None)
        ELSE [IdleCaller EXCEPT !.fn = "stop", !.outer = outer, !.pc = "drain"]]
  /\ UNCHANGED <<process, is_running, exit_code, reader_task, os, reader,
                 exit_calls, nextGen, serial, sig_term, sig_kill>>

StopCall(c) ==
  /\ Free(c)
  /\ StopEnter(c, "none")
  /\ UNCHANGED phRest

\* send_command returned; self._process.wait() is evaluated.  With _process
\* None the AttributeError is swallowed by "except Exception" (line 183) and
\* raised again, uncaught, by self._process.terminate() (line 188)
StopDrained(c) ==
  /\ caller[c].fn = "stop" /\ caller[c].pc = "drain"
  /\ caller' = [caller EXCEPT ![c] =
        IF process = None
        THEN StopResult(@.outer, "raised", None)
        ELSE [@ EXCEPT !.pc = "wait1", !.target = process]]
  /\ UNCHANGED <<process, is_running, exit_code, reader_task, os, reader,
                 exit_calls, nextGen, serial, sig_term, sig_kill>>
  /\ UNCHANGED phRest

\* one of the three waits of stop() sees the process exit: return True
StopWaited(c) ==
  /\ caller[c].fn = "stop" /\ caller[c].pc \in {"wait1", "wait2", "wait3"}
  /\ Dead(caller[c].target)
  /\ caller' = [caller EXCEPT ![c] = StopResult(@.outer, "true", @.target)]
  /\ UNCHANGED <<process, is_running, exit_code, reader_task, os, reader,
                 exit_calls, nextGen, serial, sig_term, sig_kill>>
  /\ UNCHANGED phRest

\* the graceful wait timed out: self._process.terminate(), then wait 5 s
StopTimeout1(c) ==
  /\ caller[c].fn = "stop" /\ caller[c].pc = "wait1"
  /\ Alive(caller[c].target)
  /\ IF process = None
     THEN /\ caller' = [caller EXCEPT ![c] = StopResult(@.outer, "raised", None)]
          /\ UNCHANGED <<os, sig_term>>
     ELSE IF Alive(process)
     THEN /\ os' = os
          /\ sig_term' = [sig_term EXCEPT ![process] = @ + 1]
          /\ caller' = [caller EXCEPT ![c] =
                [@ EXCEPT !.pc = "wait2", !.target = process]]
     ELSE /\ \/ caller' = [caller EXCEPT ![c] = StopResult(@.outer, "true", process)]
             \/ caller' = [caller EXCEPT ![c] = [@ EXCEPT !.pc = "wait2", !.target = process]]
          /\ UNCHANGED <<os, sig_term>>
  /\ UNCHANGED <<process, is_running, exit_code, reader_task, reader,
                 exit_calls, nextGen, serial, sig_kill>>
  /\ UNCHANGED phRest

\* the 5 s wait timed out: self._process.kill(), then wait without limit
StopTimeout2(c) ==
  /\ caller[c].fn = "stop" /\ caller[c].pc = "wait2"
  /\ Alive(caller[c].target)
  /\ IF process = None
     THEN /\ caller' = [caller EXCEPT ![c] = StopResult(@.outer, "raised", None)]
          /\ UNCHANGED <<os, sig_kill>>
     ELSE IF Alive(process)
     THEN /\ os' = [os EXCEPT ![process].st = "dead", ![process].code = SIGKILL_CODE]
          /\ sig_kill' = [sig_kill EXCEPT ![process] = @ + 1]
          /\ caller' = [caller EXCEPT ![c] =
                [@ EXCEPT !.pc = "wait3", !.target = process]]
     ELSE /\ \/ caller' = [caller EXCEPT ![c] = StopResult(@.outer, "true", process)]
             \/ caller' = [caller EXCEPT ![c] = [@ EXCEPT !.pc = "wait3", !.target = process]]
          /\ UNCHANGED <<os, sig_kill>>
  /\ UNCHANGED <<process, is_running, exit_code, reader_task, reader,
                 exit_calls, nextGen, serial, sig_term>>
  /\ UNCHANGED phRest

\* ProcessHandler.kill up to the await of self._process.wait()
KillCall(c) ==
  /\ Free(c) /\ Primary(c)
  /\ IF process = None
     THEN /\ caller' = [caller EXCEPT ![c] = Ret("kill", "done", None)]
          /\ os' = os
     ELSE /\ caller' = [caller EXCEPT ![c] =
                [IdleCaller EXCEPT !.fn = "kill", !.pc = "kwait", !.target = process]]
          /\ os' = IF Alive(process)
                   THEN [os EXCEPT ![process].st = "dead", ![process].code = SIGKILL_CODE]
                   ELSE os
  /\ UNCHANGED <<process, is_running, exit_code, reader_task, reader,
                 exit_calls, nextGen, serial, sig_term, sig_kill>>
  /\ UNCHANGED phRest

\* kill(): the wait returned (or kill() raised ProcessLookupError); the
\* finally clause runs _cleanup(), which cancels the reader task
KillWaited(c) ==
  /\ caller[c].fn = "kill" /\ caller[c].pc = "kwait"
  /\ Dead(caller[c].target)
  /\ is_running' = FALSE
  /\ process' = None
  /\ reader' = CancelReader(reader, reader_task)
  /\ reader_task' = None
  /\ caller' = [caller EXCEPT ![c] = Ret("kill", "done", @.target)]
  /\ UNCHANGED <<exit_code, os, exit_calls, nextGen, serial, sig_term, sig_kill>>
  /\ UNCHANGED phRest

\* ProcessHandler.restart: stop(timeout), sleep(1), start()
RestartCall(c) ==
  /\ Free(c) /\ Primary(c)
  /\ StopEnter(c, "restart")
  /\ UNCHANGED phRest

RestartSleepDone(c) ==
  /\ caller[c].fn = "restart" /\ caller[c].pc = "sleep"
  /\ StartEnter(c, "restart")
  /\ UNCHANGED phRest

(* ------------------- ProcessHandler: the reader task ------------------- *)

\* both read_stream loops have seen end of file; self._process.wait() is
\* evaluated (AttributeError ends the task when _process is None)
ReaderEOF(g) ==
  /\ reader[g].pc = "streams"
  /\ Dead(g)
  /\ reader' = [reader EXCEPT ![g] =
        IF process = None THEN [@ EXCEPT !.pc = "failed"]
        ELSE [@ EXCEPT !.pc = "wait", !.target = process]]
  /\ UNCHANGED <<process, is_running, exit_code, reader_task, os, exit_calls,
                 caller, nextGen, serial, sig_term, sig_kill>>
  /\ UNCHANGED phRest

\* the callback loop of _read_output from index from, then _cleanup()
ReaderCallbacks(g, from) ==
  LET tgt == reader[g].target
      fs  == FirstSuspend(from)
  IN /\ exit_calls' = [exit_calls EXCEPT ![tgt] =
            [i \in Callbacks |-> IF i \in Invoked(from)
                                 THEN Append(exit_calls[tgt][i], os[tgt].code)
                                 ELSE exit_calls[tgt][i]]]
     /\ IF fs # 0
        THEN /\ reader' = [reader EXCEPT ![g].pc = "cb", ![g].idx = fs]
             /\ UNCHANGED <<process, reader_task>>
        ELSE /\ reader' = [CancelReader(reader, IF reader_task = g THEN None ELSE reader_task)
                             EXCEPT ![g].pc = "done"]
             /\ process' = None
             /\ reader_task' = None

\* the process has exited: record the exit code, clear the flag, call the
\* exit callbacks
ReaderExit(g) ==
  /\ reader[g].pc = "wait"
  /\ Dead(reader[g].target)
  /\ exit_code' = os[reader[g].target].code
  /\ is_running' = FALSE
  /\ ReaderCallbacks(g, 1)
  /\ UNCHANGED <<os, caller, nextGen, serial, sig_term, sig_kill>>
  /\ UNCHANGED phRest

\* an awaited exit callback has finished: the loop goes on
ReaderResume(g) ==
  /\ reader[g].pc = "cb"
  /\ ReaderCallbacks(g, reader[g].idx + 1)
  /\ is_running' = IF FirstSuspend(reader[g].idx + 1) = 0 THEN FALSE ELSE is_running
  /\ UNCHANGED <<exit_code, os, caller, nextGen, serial, sig_term, sig_kill>>
  /\ UNCHANGED phRest

(* ------------------- the operating-system process ---------------------- *)

\* the process ends by itself: cleanly (also after the stop command), by a
\* crash, or by the default action of a SIGTERM it has received
ProcExit(g, code) ==
  /\ Alive(g)
  /\ code \in {0, 1} \/ (code = SIGTERM_CODE /\ sig_term[g] > 0)
  /\ os' = [os EXCEPT ![g].st = "dead", ![g].code = code]
  /\ UNCHANGED <<process, is_running, exit_code, reader_task, reader, exit_calls,
                 caller, nextGen, serial, sig_term, sig_kill>>
  /\ UNCHANGED phRest

PHNext ==
  \/ \E c \in Callers : StartCall(c)
  \/ \E c \in Callers : SpawnDone(c)
  \/ \E c \in Callers : SpawnFail(c)
  \/ \E c \in Callers : StopCall(c)
  \/ \E c \in Callers : StopDrained(c)
  \/ \E c \in Callers : StopWaited(c)
  \/ \E c \in Callers : StopTimeout1(c)
  \/ \E c \in Callers : StopTimeout2(c)
  \/ \E c \in Callers : KillCall(c)
  \/ \E c \in Callers : KillWaited(c)
  \/ \E c \in Callers : RestartCall(c)
  \/ \E c \in Callers : RestartSleepDone(c)
  \/ \E g \in Gens : ReaderEOF(g)
  \/ \E g \in Gens : ReaderExit(g)
  \/ \E g \in Gens : ReaderResume(g)
  \/ \E g \in Gens : \E code \in ExitCodes : ProcExit(g, code)

(* ======================= ServerManager ================================= *)

\* number of ProcessHandler objects ServerManager.start may create in a run
MaxHandlers == 2
\* number of tasks (bot handlers) calling the ServerManager operations
NUsers == 2
\* number of countdown tasks that may exist at a time: the one the current
\* AutoShutdownManager refers to, and those of replaced managers
NCountdowns == 2
\* number of player names
NPlayers == 1
\* number of configured servers
NServers == 1
\* config.auto_shutdown.empty_minutes
EmptyMinutes == 1

Handlers == 1..MaxHandlers
Users == 1..NUsers
Countdowns == (NUsers + 1)..(NUsers + NCountdowns)
Tasks == Users \cup Countdowns
Players == 1..NPlayers
Servers == 1..NServers

\* config.backups.backup_on_stop
BackupOnStop == TRUE

NewHandler == [proc |-> FALSE, run |-> FALSE, os |-> "none", code |-> NoCode,
               termed |-> FALSE, reader |-> "none", exit |-> "none", same |-> TRUE,
               done |-> FALSE, on |-> {}, notif |-> {}]

IdleTask == [fn |-> "idle", pc |-> "idle", outer |-> "none", h |-> None, stage |-> 0,
             rem |-> 0, cnt |-> 0, lastOp |-> "none", ret |-> "none"]

SMInit ==
  /\ active_server = None
  /\ sm_process = None
  /\ hand = [h \in Handlers |-> NewHandler]
  /\ server_ready = FALSE
  /\ online_players = {}
  /\ rcon = "none"
  /\ connect_pending = FALSE
  /\ countdown_task = None
  /\ backup_lock = None
  /\ world = "ok"
  /\ task = [t \in Tasks |-> IdleTask]
  /\ nh = 0
  /\ stray_ready = FALSE

\* ProcessHandler.is_running of handler h
HRunning(h) == hand[h].run /\ hand[h].proc

\* ServerManager.is_running
SMIsRunning == sm_process # None /\ HRunning(sm_process)

HAlive(h) == h \in Handlers /\ hand[h].os = "alive"
HDead(h) == h \in Handlers /\ hand[h].os = "dead"

\* the game server of some handler accepts RCON connections
Listening == \E h \in Handlers : HAlive(h) /\ hand[h].done

\* AutoShutdownManager.is_counting_down of the current manager
IsCountingDown == countdown_task # None /\ task[countdown_task].fn # "idle"

\* AutoShutdownManager.cancel: Task.cancel() ends the countdown task at the
\* await it is suspended in (also inside stop() or create_backup, whose
\* "async with" releases the lock); _countdown_task becomes None
CancelledTasks(tk) ==
  IF countdown_task # None /\ tk[countdown_task].fn # "idle"
  THEN [tk EXCEPT ![countdown_task] = IdleTask]
  ELSE tk

LockAfterCancel ==
  IF IsCountingDown /\ backup_lock = countdown_task THEN None ELSE backup_lock

\* the result a finished operation leaves in its user task (kept for stop and
\* kill, whose completion is observed)
TRet(op, r) ==
  IF op \in {"stop", "kill"} THEN [IdleTask EXCEPT !.lastOp = op, !.ret = r]
  ELSE IdleTask

\* ServerManager.stop, called from outer, has finished with result r:
\* restart() goes on to its sleep(2), a countdown task ends, a user task has
\* its result
StopDone(outer, r) ==
  IF outer = "restart"
  THEN [IdleTask EXCEPT !.fn = "restart", !.pc = "sleep", !.outer = "restart"]
  ELSE IF outer = "cd" THEN IdleTask
  ELSE TRet("stop", r)

\* a user task may begin an operation; under mserial only user 1 calls
UFree(t) ==
  /\ t \in Users
  /\ task[t].fn = "idle"
  /\ mserial => t = 1

\* ServerManager.set_active_server: refused while running; builds a new
\* BackupManager, AutoShutdownManager, LogWatcher and RconClient. The replaced
\* AutoShutdownManager is dropped without cancel(): its countdown task lives on
SetActiveServer(t, s) ==
  /\ UFree(t)
  /\ IF SMIsRunning
     THEN /\ task' = [task EXCEPT ![t] = TRet("set_active", "raised")]
          /\ UNCHANGED <<active_server, hand, online_players, rcon,
                         countdown_task, backup_lock>>
     ELSE /\ active_server' = s
          /\ task' = [task EXCEPT ![t] = TRet("set_active", "none")]
          /\ hand' = [h \in Handlers |->
                        [hand[h] EXCEPT !.same = (hand[h].exit # "disc")]]
          /\ online_players' = {}
          /\ rcon' = "none"
          /\ countdown_task' = None
          /\ backup_lock' = None
  /\ UNCHANGED <<sm_process, server_ready, connect_pending, world, nh, mserial,
                 stray_ready>>
  /\ UNCHANGED smRest

\* handler h has no process, no reader and no exit handling left: once
\* ServerManager._process is replaced nothing refers to it any more
Finished(h) ==
  /\ hand[h].os # "alive"
  /\ hand[h].reader # "streams"
  /\ hand[h].exit # "disc"
Forgotten == [NewHandler EXCEPT !.os = "gone"]

\* ServerManager.start up to "await self._process.start()", and
\* ProcessHandler.start up to "await create_subprocess_exec"
SMStartEnter(t, outer) ==
  IF active_server = None
  THEN /\ task' = [task EXCEPT ![t] = TRet(outer, "raised")]
       /\ UNCHANGED <<sm_process, hand, server_ready, nh>>
  ELSE IF SMIsRunning
  THEN /\ task' = [task EXCEPT ![t] = TRet(outer, "false")]
       /\ UNCHANGED <<sm_process, hand, server_ready, nh>>
  ELSE /\ nh < MaxHandlers
       /\ nh' = nh + 1
       /\ sm_process' = nh + 1
       /\ hand' = [h \in Handlers |->
                     IF h = nh + 1 THEN NewHandler
                     ELSE IF Finished(h) THEN Forgotten ELSE hand[h]]
       /\ server_ready' = FALSE
       /\ task' = [task EXCEPT ![t] = [IdleTask EXCEPT !.fn = "start",
                     !.pc = "spawning", !.outer = outer, !.h = nh + 1]]

SMStart(t) ==
  /\ UFree(t)
  /\ SMStartEnter(t, "start")
  /\ UNCHANGED <<active_server, online_players, rcon, connect_pending,
                 countdown_task, backup_lock, world, mserial, stray_ready>>
  /\ UNCHANGED smRest

\* create_subprocess_exec returned: the process lives, the reader task exists
SMSpawnDone(t) ==
  /\ task[t].pc = "spawning"
  /\ hand' = [hand EXCEPT ![task[t].h] = [@ EXCEPT !.proc = TRUE, !.run = TRUE,
                 !.os = "alive", !.reader = "streams"]]
  /\ task' = [task EXCEPT ![t] = TRet(task[t].outer, "true")]
  /\ UNCHANGED <<active_server, sm_process, server_ready, online_players,
                 rcon, connect_pending, countdown_task, backup_lock,
                 world, nh, mserial, stray_ready>>
  /\ UNCHANGED smRest

\* create_subprocess_exec raised: start() raises RuntimeError
SMSpawnFail(t) ==
  /\ task[t].pc = "spawning"
  /\ task' = [task EXCEPT ![t] = TRet(task[t].outer, "raised")]
  /\ UNCHANGED <<active_server, sm_process, hand, server_ready, online_players,
                 rcon, connect_pending, countdown_task, backup_lock,
                 world, nh, mserial, stray_ready>>
  /\ UNCHANGED smRest

\* ProcessHandler.stop of the handler ServerManager._process refers to now,
\* up to its first wait_for: the running check and the "stop" command
HandlerStopEnter(outer) ==
  IF sm_process # None /\ HRunning(sm_process)
  THEN [IdleTask EXCEPT !.fn = "stop", !.pc = "wait", !.stage = 1,
                        !.outer = outer, !.h = sm_process,
                        !.cnt = Cardinality(online_players)]
  ELSE StopDone(outer, "false")

\* whether create_backup finds the world directory: a restore in progress has
\* deleted it or is extracting it again
WorldExists == IF world = "ok" THEN {TRUE} ELSE {TRUE, FALSE}

\* ServerManager.stop up to its first await: the running check, then the
\* backup before shutdown. create_backup raises at once when the world
\* directory is missing (stop() swallows it), waits for the lock when it is
\* held, and otherwise archives in the executor holding the lock
SMStopEnter(t, outer) ==
  IF ~SMIsRunning
  THEN /\ task' = [task EXCEPT ![t] = StopDone(outer, "false")]
       /\ UNCHANGED backup_lock
  ELSE \E exists \in WorldExists :
    IF ~BackupOnStop \/ ~exists
    THEN /\ task' = [task EXCEPT ![t] = HandlerStopEnter(outer)]
         /\ UNCHANGED backup_lock
    ELSE IF backup_lock = None
    THEN /\ task' = [task EXCEPT ![t] = [IdleTask EXCEPT !.fn = "stop",
                       !.pc = "archiving", !.outer = outer]]
         /\ backup_lock' = t
    ELSE /\ task' = [task EXCEPT ![t] = [IdleTask EXCEPT !.fn = "stop",
                       !.pc = "bk_lock", !.outer = outer]]
         /\ UNCHANGED backup_lock

SMStop(t) ==
  /\ UFree(t)
  /\ SMStopEnter(t, "stop")
  /\ UNCHANGED <<active_server, sm_process, hand, server_ready, online_players,
                 rcon, connect_pending, countdown_task, world, nh,
                 mserial, stray_ready>>
  /\ UNCHANGED smRest

\* create_backup obtains BackupManager._lock
BackupAcquire(t) ==
  /\ task[t].fn = "stop" /\ task[t].pc = "bk_lock"
  /\ backup_lock = None
  /\ backup_lock' = t
  /\ task' = [task EXCEPT ![t] = [@ EXCEPT !.pc = "archiving"]]
  /\ UNCHANGED <<active_server, sm_process, hand, server_ready, online_players,
                 rcon, connect_pending, countdown_task, world, nh,
                 mserial, stray_ready>>
  /\ UNCHANGED smRest

\* the archive is written (or failed: stop() swallows it); the lock is
\* released and "await self._process.stop(timeout)" begins
BackupDone(t) ==
  /\ task[t].fn = "stop" /\ task[t].pc = "archiving"
  /\ backup_lock' = IF backup_lock = t THEN None ELSE backup_lock
  /\ task' = [task EXCEPT ![t] = HandlerStopEnter(task[t].outer)]
  /\ UNCHANGED <<active_server, sm_process, hand, server_ready, online_players,
                 rcon, connect_pending, countdown_task, world, nh,
                 mserial, stray_ready>>
  /\ UNCHANGED smRest

\* a wait_for(process.wait()) of ProcessHandler.stop returns: the process
\* has exited, stop() returns True
SMStopWaited(t) ==
  /\ task[t].fn = "stop" /\ task[t].pc = "wait"
  /\ HDead(task[t].h)
  /\ task' = [task EXCEPT ![t] = StopDone(task[t].outer, "true")]
  /\ UNCHANGED <<active_server, sm_process, hand, server_ready, online_players,
                 rcon, connect_pending, countdown_task, backup_lock,
                 world, nh, mserial, stray_ready>>
  /\ UNCHANGED smRest

\* a wait_for of ProcessHandler.stop times out: terminate() after the first,
\* kill() after the second
SMStopTimeout(t) ==
  /\ task[t].fn = "stop" /\ task[t].pc = "wait"
  /\ HAlive(task[t].h)
  /\ task[t].stage \in {1, 2}
  /\ task' = [task EXCEPT ![t] = [@ EXCEPT !.stage = @ + 1]]
  /\ hand' = [hand EXCEPT ![task[t].h] =
                IF task[t].stage = 1 THEN [@ EXCEPT !.termed = TRUE]
                ELSE [@ EXCEPT !.os = "dead", !.code = SIGKILL_CODE]]
  /\ UNCHANGED <<active_server, sm_process, server_ready, online_players,
                 rcon, connect_pending, countdown_task, backup_lock,
                 world, nh, mserial, stray_ready>>
  /\ UNCHANGED smRest

\* ServerManager.kill -> ProcessHandler.kill up to "await process.wait()"
SMKill(t) ==
  /\ UFree(t)
  /\ IF sm_process # None /\ hand[sm_process].proc
     THEN /\ hand' = [hand EXCEPT ![sm_process] =
                        IF @.os = "alive"
                        THEN [@ EXCEPT !.os = "dead", !.code = SIGKILL_CODE]
                        ELSE @]
          /\ task' = [task EXCEPT ![t] = [IdleTask EXCEPT !.fn = "kill",
                        !.pc = "wait", !.h = sm_process]]
     ELSE /\ task' = [task EXCEPT ![t] = TRet("kill", "none")]
          /\ UNCHANGED hand
  /\ UNCHANGED <<active_server, sm_process, server_ready, online_players,
                 rcon, connect_pending, countdown_task, backup_lock,
                 world, nh, mserial, stray_ready>>
  /\ UNCHANGED smRest

\* ProcessHandler.kill after the wait: "finally: await self._cleanup()"
\* cancels the reader task and forgets the process
SMKillWaited(t) ==
  /\ task[t].fn = "kill" /\ task[t].pc = "wait"
  /\ hand' = [hand EXCEPT ![task[t].h] = [@ EXCEPT !.run = FALSE, !.proc = FALSE,
                 !.reader = IF @ = "streams" THEN "cancelled" ELSE @,
                 !.termed = FALSE, !.done = FALSE, !.on = {}]]
  /\ task' = [task EXCEPT ![t] = TRet("kill", "none")]
  /\ UNCHANGED <<active_server, sm_process, server_ready, online_players,
                 rcon, connect_pending, countdown_task, backup_lock,
                 world, nh, mserial, stray_ready>>
  /\ UNCHANGED smRest

\* ServerManager.restart: stop(), then sleep(2), then start()
SMRestart(t) ==
  /\ UFree(t)
  /\ SMStopEnter(t, "restart")
  /\ UNCHANGED <<active_server, sm_process, hand, server_ready, online_players,
                 rcon, connect_pending, countdown_task, world, nh,
                 mserial, stray_ready>>
  /\ UNCHANGED smRest

SMRestartSleepDone(t) ==
  /\ task[t].fn = "restart" /\ task[t].pc = "sleep"
  /\ SMStartEnter(t, "restart")
  /\ UNCHANGED <<active_server, online_players, rcon, connect_pending,
                 countdown_task, backup_lock, world, mserial, stray_ready>>
  /\ UNCHANGED smRest

\* ServerManager.restore_backup: refused while running; then
\* BackupManager.restore_backup waits for the lock
SMRestore(t) ==
  /\ UFree(t)
  /\ IF SMIsRunning \/ active_server = None
     THEN /\ task' = [task EXCEPT ![t] = TRet("restore", "raised")]
          /\ UNCHANGED <<backup_lock, world>>
     ELSE IF backup_lock = None
     THEN /\ task' = [task EXCEPT ![t] = [IdleTask EXCEPT !.fn = "restore",
                        !.pc = "restoring"]]
          /\ backup_lock' = t
          /\ world' = "restoring"
     ELSE /\ task' = [task EXCEPT ![t] = [IdleTask EXCEPT !.fn = "restore",
                        !.pc = "bk_lock"]]
          /\ UNCHANGED <<backup_lock, world>>
  /\ UNCHANGED <<active_server, sm_process, hand, server_ready, online_players,
                 rcon, connect_pending, countdown_task, nh, mserial,
                 stray_ready>>
  /\ UNCHANGED smRest

\* restore_backup obtains the lock: _restore_archive starts in the executor,
\* deleting the world directory and extracting the archive
RestoreAcquire(t) ==
  /\ task[t].fn = "restore" /\ task[t].pc = "bk_lock"
  /\ backup_lock = None
  /\ backup_lock' = t
  /\ world' = "restoring"
  /\ task' = [task EXCEPT ![t] = [@ EXCEPT !.pc = "restoring"]]
  /\ UNCHANGED <<active_server, sm_process, hand, server_ready, online_players,
                 rcon, connect_pending, countdown_task, nh, mserial,
                 stray_ready>>
  /\ UNCHANGED smRest

\* _restore_archive has finished
RestoreDone(t) ==
  /\ task[t].fn = "restore" /\ task[t].pc = "restoring"
  /\ backup_lock' = IF backup_lock = t THEN None ELSE backup_lock
  /\ world' = IF \E u \in Tasks \ {t} : task[u].pc = "restoring"
              THEN "restoring" ELSE "ok"
  /\ task' = [task EXCEPT ![t] = TRet("restore", "none")]
  /\ UNCHANGED <<active_server, sm_process, hand, server_ready, online_players,
                 rcon, connect_pending, countdown_task, nh, mserial,
                 stray_ready>>
  /\ UNCHANGED smRest

\* the game server process of handler h exits: by itself with code 0 or 1,
\* or with -15 once terminate() was sent
SMProcExit(h, code) ==
  /\ HAlive(h)
  /\ code \in {0, 1} \/ (code = SIGTERM_CODE /\ hand[h].termed)
  /\ hand' = [hand EXCEPT ![h] = [@ EXCEPT !.os = "dead", !.code = code]]
  /\ UNCHANGED <<active_server, sm_process, server_ready, online_players,
                 rcon, connect_pending, countdown_task, backup_lock,
                 world, task, nh, mserial, stray_ready>>
  /\ UNCHANGED smRest

\* the slots in which a new countdown task can be created
FreeSlots == {t \in Countdowns : task[t].fn = "idle"}
FirstFree == CHOOSE t \in FreeSlots : \A u \in FreeSlots : t <= u

\* AutoShutdownManager._start_countdown: a new countdown task in a free slot
NewCountdown(tk, t) ==
  [tk EXCEPT ![t] = [IdleTask EXCEPT !.fn = "cd", !.pc = "warn",
                                     !.rem = EmptyMinutes]]

\* the reader task of handler h reads the output of its living process
Reading(h) == hand[h].reader = "streams" /\ HAlive(h)

\* the reader of handler h reads a line; the stdout callback hands it to the
\* current LogWatcher, whose process_line updates the online set and runs the
\* orchestrator's handler for the event:
\*   "done"  _handle_server_ready up to its first await
\*   "join"  _handle_player_joined -> on_player_count_changed(n > 0): cancel
\*   "left"  _handle_player_left -> on_player_count_changed(n): countdown at 0
\*   "stopping"  the online set is cleared, no handler is registered
SMLineDone(h) ==
  /\ Reading(h)
  /\ ~hand[h].done
  /\ active_server # None
  /\ hand' = [hand EXCEPT ![h] = [@ EXCEPT !.done = TRUE]]
  /\ server_ready' = TRUE
  /\ stray_ready' = (stray_ready \/ sm_process # h \/ ~SMIsRunning)
  /\ connect_pending' = TRUE
  /\ UNCHANGED <<active_server, sm_process, online_players, rcon,
                 countdown_task, backup_lock, world, task, nh, mserial>>
  /\ UNCHANGED smRest

SMLineJoin(h, p) ==
  /\ Reading(h)
  /\ hand[h].done
  /\ p \notin hand[h].on
  /\ active_server # None
  /\ hand' = [hand EXCEPT ![h] = [@ EXCEPT !.on = @ \cup {p}]]
  /\ online_players' = online_players \cup {p}
  /\ task' = CancelledTasks(task)
  /\ backup_lock' = LockAfterCancel
  /\ countdown_task' = None
  /\ UNCHANGED <<active_server, sm_process, server_ready, rcon,
                 connect_pending, world, nh, mserial, stray_ready>>
  /\ UNCHANGED smRest

SMLineLeft(h, p) ==
  /\ Reading(h)
  /\ p \in hand[h].on
  /\ active_server # None
  /\ hand' = [hand EXCEPT ![h] = [@ EXCEPT !.on = @ \ {p}]]
  /\ online_players' = online_players \ {p}
  /\ IF online_players' = {}
     THEN IF IsCountingDown
          THEN UNCHANGED <<task, countdown_task, backup_lock>>
          ELSE /\ FreeSlots # {}
               /\ task' = NewCountdown(task, FirstFree)
               /\ countdown_task' = FirstFree
               /\ UNCHANGED backup_lock
     ELSE /\ task' = CancelledTasks(task)
          /\ backup_lock' = LockAfterCancel
          /\ countdown_task' = None
  /\ UNCHANGED <<active_server, sm_process, server_ready, rcon,
                 connect_pending, world, nh, mserial, stray_ready>>
  /\ UNCHANGED smRest

SMLineStopping(h) ==
  /\ Reading(h)
  /\ hand[h].done
  /\ online_players # {}
  /\ active_server # None
  /\ online_players' = {}
  /\ UNCHANGED <<active_server, sm_process, hand, server_ready, rcon,
                 connect_pending, countdown_task, backup_lock, world, task, nh,
                 mserial, stray_ready>>
  /\ UNCHANGED smRest

\* RconClient.is_connected of the current client
RconIsConnected == rcon = "open"

\* _handle_process_exit after "await self._rcon.disconnect()": the classifier
\* and the countdown are reset, the ready signal cleared, and the crash
\* callbacks (exit code not 0) or the stop callbacks (exit code 0) notified
ExitCleanup(h) ==
  /\ online_players' = {}
  /\ task' = CancelledTasks(task)
  /\ backup_lock' = LockAfterCancel
  /\ countdown_task' = None
  /\ server_ready' = FALSE

Notified(h) == IF hand[h].code # 0 THEN {"crash"} ELSE {"stop"}

\* _read_output of handler h after EOF: the exit code is recorded, is_running
\* cleared, the exit callback creates the _handle_process_exit task, and
\* _cleanup() runs. The task runs up to "await self._writer.wait_closed()"
\* when the client has a connection, and to its end otherwise
SMReaderExit(h) ==
  /\ hand[h].reader = "streams"
  /\ HDead(h)
  /\ IF active_server = None
     THEN /\ hand' = [hand EXCEPT ![h] = [@ EXCEPT !.run = FALSE, !.proc = FALSE,
                        !.termed = FALSE, !.done = FALSE, !.on = {},
                        !.reader = "done", !.exit = "done"]]
          /\ UNCHANGED <<rcon, online_players, task, backup_lock, countdown_task,
                         server_ready>>
     ELSE IF rcon # "none"
     THEN /\ hand' = [hand EXCEPT ![h] = [@ EXCEPT !.run = FALSE, !.proc = FALSE,
                        !.termed = FALSE, !.done = FALSE, !.on = {},
                        !.reader = "done", !.exit = "disc", !.same = TRUE]]
          /\ rcon' = "closing"
          /\ UNCHANGED <<online_players, task, backup_lock, countdown_task,
                         server_ready>>
     ELSE /\ hand' = [hand EXCEPT ![h] = [@ EXCEPT !.run = FALSE, !.proc = FALSE,
                        !.termed = FALSE, !.done = FALSE, !.on = {},
                        !.reader = "done", !.exit = "done",
                        !.notif = @ \cup Notified(h)]]
          /\ ExitCleanup(h)
          /\ UNCHANGED rcon
  /\ UNCHANGED <<active_server, sm_process, connect_pending, world, nh, mserial,
                 stray_ready>>
  /\ UNCHANGED smRest

\* _handle_process_exit resumes after disconnect(): the client it disconnected
\* forgets its connection (a client that replaced it is not touched)
SMExitResume(h) ==
  /\ hand[h].exit = "disc"
  /\ rcon' = IF hand[h].same THEN "none" ELSE rcon
  /\ hand' = [hand EXCEPT ![h] = [@ EXCEPT !.exit = "done", !.same = TRUE,
                 !.notif = @ \cup Notified(h)]]
  /\ ExitCleanup(h)
  /\ UNCHANGED <<active_server, sm_process, connect_pending, world, nh, mserial,
                 stray_ready>>
  /\ UNCHANGED smRest

\* _handle_server_ready after its sleep(2): RconClient.connect() of the
\* current client succeeds when a game server listens
SMRconConnect ==
  /\ connect_pending
  /\ connect_pending' = FALSE
  /\ rcon' = IF Listening THEN "open" ELSE rcon
  /\ UNCHANGED <<active_server, sm_process, hand, server_ready, online_players,
                 countdown_task, backup_lock, world, task, nh, mserial, stray_ready>>
  /\ UNCHANGED smRest

\* _countdown_loop: the warnings due in this iteration, sent with
\* RconClient.command, which reconnects when needed and drops a connection
\* whose server is gone
CountdownWarn(t) ==
  /\ task[t].fn = "cd" /\ task[t].pc = "warn"
  /\ rcon' = IF Listening THEN "open" ELSE IF rcon = "open" THEN "none" ELSE rcon
  /\ task' = [task EXCEPT ![t] = [@ EXCEPT !.pc = "sleep"]]
  /\ UNCHANGED <<active_server, sm_process, hand, server_ready, online_players,
                 connect_pending, countdown_task, backup_lock, world, nh, mserial,
                 stray_ready>>
  /\ UNCHANGED smRest

\* _countdown_loop: a sleep(60) ends. With minutes remaining the loop goes
\* on; after the last minute the shutdown callback _handle_auto_shutdown
\* calls ServerManager.stop()
CountdownSleep(t) ==
  /\ task[t].fn = "cd" /\ task[t].pc = "sleep"
  /\ IF task[t].rem > 1
     THEN /\ task' = [task EXCEPT ![t] = [@ EXCEPT !.pc = "warn", !.rem = @ - 1]]
          /\ UNCHANGED backup_lock
     ELSE IF active_server # None
     THEN SMStopEnter(t, "cd")
     ELSE /\ task' = [task EXCEPT ![t] = IdleTask]
          /\ UNCHANGED backup_lock
  /\ UNCHANGED <<active_server, sm_process, hand, server_ready, online_players,
                 rcon, connect_pending, countdown_task, world, nh, mserial,
                 stray_ready>>
  /\ UNCHANGED smRest

SMNext ==
  \/ \E t \in Users : \E s \in Servers : SetActiveServer(t, s)
  \/ \E t \in Users : SMStart(t)
  \/ \E t \in Users : SMSpawnDone(t)
  \/ \E t \in Users : SMSpawnFail(t)
  \/ \E t \in Users : SMStop(t)
  \/ \E t \in Tasks : BackupAcquire(t)
  \/ \E t \in Tasks : BackupDone(t)
  \/ \E t \in Tasks : SMStopWaited(t)
  \/ \E t \in Tasks : SMStopTimeout(t)
  \/ \E t \in Users : SMKill(t)
  \/ \E t \in Users : SMKillWaited(t)
  \/ \E t \in Users : SMRestart(t)
  \/ \E t \in Users : SMRestartSleepDone(t)
  \/ \E t \in Users : SMRestore(t)
  \/ \E t \in Users : RestoreAcquire(t)
  \/ \E t \in Users : RestoreDone(t)
  \/ \E h \in Handlers : \E code \in ExitCodes : SMProcExit(h, code)
  \/ \E h \in Handlers : SMLineDone(h)
  \/ \E h \in Handlers : \E p \in Players : SMLineJoin(h, p)
  \/ \E h \in Handlers : \E p \in Players : SMLineLeft(h, p)
  \/ \E h \in Handlers : SMLineStopping(h)
  \/ \E h \in Handlers : SMReaderExit(h)
  \/ \E h \in Handlers : SMExitResume(h)
  \/ SMRconConnect
  \/ \E t \in Countdowns : CountdownWarn(t)
  \/ \E t \in Countdowns : CountdownSleep(t)

(* ======================= RconClient ==================================== *)

\* number of tasks calling connect() and command() on the client
NRcCallers == 2
\* number of request ids the client may allocate in a run
MaxRequests == 3
\* number of connections the client may open in a run
MaxConns == 2

RcCallers == 1..NRcCallers
Conns == 1..MaxConns

\* the request id of a failed authentication response
AUTH_FAILED == -1

IdleCall == [fn |-> "idle", pc |-> "idle", outer |-> "none", rid |-> 0, conn |-> None,
             ret |-> "none", got |-> 0, why |-> "none", auth |-> FALSE]

\* RconClient.__init__, and a server that has no connection yet
RcFresh ==
  [writer |-> None, authenticated |-> FALSE, request_id |-> 0, lock |-> None,
   nconn |-> 0,
   open |-> [k \in Conns |-> FALSE],
   pending |-> [k \in Conns |-> << >>],
   inbox |-> [k \in Conns |-> << >>],
   call |-> [c \in RcCallers |-> IdleCall]]

rcRest == <<phVars, smVars, asm, lw, bm, pk, callVars>>

\* a call of caller c ends with result r for the reason why; the caller
\* observes _authenticated as the call leaves it
RcReturn(r, c, res, why) ==
  [r EXCEPT !.call[c] = [@ EXCEPT !.fn = "idle", !.pc = "idle", !.outer = "none",
                            !.ret = res, !.why = why, !.auth = r.authenticated],
            !.lock = IF r.lock = c THEN None ELSE r.lock]

\* another call already waits for data on the reader: a second readexactly
\* on it raises RuntimeError
RcReaderBusy(r, c) ==
  /\ r.inbox[r.writer] = << >>
  /\ \E d \in RcCallers \ {c} :
       r.call[d].pc \in {"read", "auth"} /\ r.call[d].conn = r.writer

\* command() and _authenticate(): _request_id += 1, then _send_packet up to
\* its read. Without a writer _send_packet returns None at once; an exception
\* of the read ("except Exception") clears _authenticated
RcSend(r, c, kind) ==
  LET id == r.request_id + 1
      r1 == [r EXCEPT !.request_id = id]
      fail == IF kind = "auth" /\ r.call[c].outer = "connect" THEN "false" ELSE "none" IN
  IF r.writer = None
  THEN RcReturn(r1, c, fail, "nowriter")
  ELSE IF RcReaderBusy(r, c)
  THEN RcReturn([r1 EXCEPT !.authenticated = FALSE,
                           !.pending[r.writer] = Append(@, <<id, kind>>)], c, fail, "io")
  ELSE [r1 EXCEPT !.pending[r.writer] = Append(@, <<id, kind>>),
                  !.call[c] = [@ EXCEPT !.pc = IF kind = "auth" THEN "auth" ELSE "read",
                                 !.rid = id, !.conn = r.writer, !.got = 0,
                                 !.ret = "none", !.why = "none"]]

\* command(): "async with self._lock", entered at once when the lock is free
RcLockEnter(r, c) ==
  IF r.lock = None
  THEN RcSend([r EXCEPT !.lock = c, !.call[c] = [@ EXCEPT !.fn = "command"]], c, "cmd")
  ELSE [r EXCEPT !.call[c] = [@ EXCEPT !.fn = "command", !.pc = "lock"]]

\* RconClient.command: an unauthenticated client reconnects first
RcCommand(c) ==
  /\ rc.call[c].fn = "idle"
  /\ rc.request_id < MaxRequests
  /\ rc' = IF ~rc.authenticated
           THEN [rc EXCEPT !.call[c] = [IdleCall EXCEPT !.fn = "command",
                                          !.pc = "open", !.outer = "command"]]
           ELSE RcLockEnter([rc EXCEPT !.call[c] = IdleCall], c)
  /\ UNCHANGED rcRest

\* the lock is released to a waiting command()
RcLockAcquired(c) ==
  /\ rc.call[c].pc = "lock"
  /\ rc.lock = None
  /\ rc' = RcLockEnter(rc, c)
  /\ UNCHANGED rcRest

\* RconClient.connect, up to "await open_connection"
RcConnect(c) ==
  /\ rc.call[c].fn = "idle"
  /\ rc.request_id < MaxRequests
  /\ rc' = [rc EXCEPT !.call[c] = [IdleCall EXCEPT !.fn = "connect", !.pc = "open",
                                     !.outer = "connect"]]
  /\ UNCHANGED rcRest

\* open_connection succeeded: _reader and _writer are replaced, and
\* _authenticate writes its packet
RcOpened(c) ==
  /\ rc.call[c].pc = "open"
  /\ rc.nconn < MaxConns
  /\ rc.request_id < MaxRequests
  /\ LET k == rc.nconn + 1 IN
     rc' = RcSend([rc EXCEPT !.nconn = k, !.writer = k, !.open[k] = TRUE], c, "auth")
  /\ UNCHANGED rcRest

\* open_connection failed or timed out: connect() returns False, and a
\* command() that was reconnecting returns None
RcOpenFailed(c) ==
  /\ rc.call[c].pc = "open"
  /\ rc' = RcReturn(rc, c, IF rc.call[c].outer = "command" THEN "none" ELSE "false",
                    "connect")
  /\ UNCHANGED rcRest

\* the server answers the oldest request of connection k: a command with its
\* id, an authentication with its id or with -1
RcServerReply(k, ok) ==
  /\ rc.open[k]
  /\ rc.pending[k] # << >>
  /\ LET req == Head(rc.pending[k])
         id == IF req[2] = "auth" /\ ~ok THEN AUTH_FAILED ELSE req[1] IN
     /\ ok \/ req[2] = "auth"
     /\ rc' = [rc EXCEPT !.pending[k] = Tail(@), !.inbox[k] = Append(@, id)]
  /\ UNCHANGED rcRest

\* _send_packet reads the next response of its connection. command()
\* returns its payload; _authenticate compares its id with the request's and
\* sets _authenticated, after which a reconnecting command() goes on to the lock
RcRead(c) ==
  /\ rc.call[c].pc \in {"read", "auth"}
  /\ rc.inbox[rc.call[c].conn] # << >>
  /\ rc.writer = rc.call[c].conn
  /\ LET k == rc.call[c].conn
         id == Head(rc.inbox[k])
         r1 == [rc EXCEPT !.inbox[k] = Tail(@), !.call[c] = [@ EXCEPT !.got = id]] IN
     rc' = IF rc.call[c].pc = "read"
           THEN RcReturn(r1, c, "payload", "none")
           ELSE IF id = rc.call[c].rid
           THEN LET r2 == [r1 EXCEPT !.authenticated = TRUE] IN
                IF rc.call[c].outer = "command"
                THEN IF r2.request_id < MaxRequests
                     THEN RcLockEnter(r2, c)
                     ELSE RcReturn(r2, c, "none", "bound")
                ELSE RcReturn(r2, c, "true", "none")
           ELSE LET r2 == [r1 EXCEPT !.authenticated = FALSE] IN
                RcReturn(r2, c, IF rc.call[c].outer = "command" THEN "none" ELSE "false",
                         "auth")
  /\ UNCHANGED rcRest

\* _send_packet has read the length of its response, and a connect() of
\* another task has replaced _reader since: the body is read from the other
\* connection (or from None). The call fails, or command() returns the
\* payload of bytes that are no response to its request
RcReadMixed(c, garbled) ==
  /\ rc.call[c].pc \in {"read", "auth"}
  /\ rc.inbox[rc.call[c].conn] # << >>
  /\ rc.writer # rc.call[c].conn
  /\ garbled => rc.call[c].pc = "read"
  /\ LET k == rc.call[c].conn
         r1 == [rc EXCEPT !.inbox[k] = Tail(@), !.call[c] = [@ EXCEPT !.got = 0]] IN
     rc' = IF garbled
           THEN RcReturn(r1, c, "payload", "none")
           ELSE RcReturn([r1 EXCEPT !.authenticated = FALSE], c,
                         IF rc.call[c].outer = "connect" THEN "false" ELSE "none", "io")
  /\ UNCHANGED rcRest

\* wait_for in command() times out: the exchange is abandoned and command()
\* returns None ("except TimeoutError: return None")
RcTimeout(c) ==
  /\ rc.call[c].pc = "read"
  /\ rc' = RcReturn(rc, c, "none", "timeout")
  /\ UNCHANGED rcRest

\* the server closes connection k
RcConnLost(k) ==
  /\ rc.open[k]
  /\ rc' = [rc EXCEPT !.open[k] = FALSE, !.pending[k] = << >>]
  /\ UNCHANGED rcRest

\* the read of _send_packet fails on a closed connection
\* (IncompleteReadError): disconnect() forgets the writer and the
\* authentication, and the call returns None or False
RcIOError(c) ==
  /\ rc.call[c].pc \in {"read", "auth"}
  /\ ~rc.open[rc.call[c].conn]
  /\ rc.inbox[rc.call[c].conn] = << >>
  /\ rc' = RcReturn([rc EXCEPT !.writer = None, !.authenticated = FALSE], c,
                    IF rc.call[c].fn = "command" THEN "none" ELSE "false", "io")
  /\ UNCHANGED rcRest

RCNext ==
  \/ \E c \in RcCallers : RcCommand(c)
  \/ \E c \in RcCallers : RcLockAcquired(c)
  \/ \E c \in RcCallers : RcConnect(c)
  \/ \E c \in RcCallers : RcOpened(c)
  \/ \E c \in RcCallers : RcOpenFailed(c)
  \/ \E k \in Conns : \E ok \in BOOLEAN : RcServerReply(k, ok)
  \/ \E c \in RcCallers : RcRead(c)
  \/ \E c \in RcCallers : \E garbled \in BOOLEAN : RcReadMixed(c, garbled)
  \/ \E c \in RcCallers : RcTimeout(c)
  \/ \E k \in Conns : RcConnLost(k)
  \/ \E c \in RcCallers : RcIOError(c)

(* ======================= AutoShutdownManager =========================== *)

\* bounds: the empty_minutes the manager is given (none, a few, more than
\* the largest threshold), the countdown tasks one manager creates, the
\* largest player count it is told
MidMinutes == 3
MaxMinutes == 11
MaxRuns == 2
MaxCount == 1

Runs == 1..MaxRuns
MinuteChoices == {0, MidMinutes, MaxMinutes}

\* self._warning_intervals, in the order the loop walks it
WarningIntervals == <<10, 5, 1>>

\* a countdown task: where _countdown_loop stands (pc), whether cancel() was
\* requested on it (req), its locals remaining_minutes (rem) and warned, and
\* what it did: the value of empty_minutes it started from (start), its
\* warnings as pairs <<threshold, minutes passed to on_warning>> (warns), its
\* decrements (decs), its on_shutdown calls (shut), and what it had done
\* when cancel() was requested (at)
NoRun ==
  [pc |-> "none", req |-> FALSE, rem |-> 0, start |-> 0, warned |-> {},
   warns |-> {}, decs |-> 0, shut |-> 0, at |-> << >>]

\* AutoShutdownManager(empty_minutes = m)
AsFresh(m) ==
  [empty_minutes |-> m, enabled |-> m > 0, countdown_task |-> None,
   count |-> 0, nrun |-> 0, run |-> [t \in Runs |-> NoRun]]

AsInit == \E m \in MinuteChoices : asm = AsFresh(m)

asRest == <<phVars, smVars, rc, lw, bm, pk, callVars>>

\* Task.done()
AsDone(a, t) == a.run[t].pc \in {"done", "cancelled"}

\* is_counting_down
AsIsCountingDown(a) ==
  a.countdown_task # None /\ ~AsDone(a, a.countdown_task)

\* what a task has done so far
AsDeeds(r) == <<r.decs, Cardinality(r.warns), r.shut, r.pc>>

\* cancel()
AsCancelOf(a) ==
  LET t == a.countdown_task IN
  IF t # None /\ ~AsDone(a, t)
    THEN [a EXCEPT !.countdown_task = None,
                   !.run[t].req = TRUE,
                   !.run[t].at = AsDeeds(a.run[t])]
    ELSE [a EXCEPT !.countdown_task = None]

\* a _start_countdown() without the is_counting_down test of lines 87-88
AsStartAlways(a) ==
  [a EXCEPT !.nrun = a.nrun + 1,
            !.countdown_task = a.nrun + 1,
            !.run[a.nrun + 1] = [NoRun EXCEPT !.pc = "new"]]

\* _start_countdown()
AsStartOf(a) ==
  IF AsIsCountingDown(a) THEN a
  ELSE [a EXCEPT !.nrun = a.nrun + 1,
                 !.countdown_task = a.nrun + 1,
                 !.run[a.nrun + 1] = [NoRun EXCEPT !.pc = "new"]]

\* on_player_count_changed(n)
AsCountChanged(n) ==
  /\ (asm.enabled /\ n = 0 /\ ~AsIsCountingDown(asm)) => asm.nrun < MaxRuns
  /\ asm' = LET a == [asm EXCEPT !.count = n] IN
            IF ~a.enabled THEN a
            ELSE IF n = 0 THEN AsStartOf(a) ELSE AsCancelOf(a)
  /\ UNCHANGED asRest

\* enable(empty_minutes); m = -1 stands for the call without an argument
AsEnable(m) ==
  /\ asm' = LET a == IF m # -1 THEN [asm EXCEPT !.empty_minutes = m] ELSE asm
            IN [a EXCEPT !.enabled = a.empty_minutes > 0]
  /\ UNCHANGED asRest

\* a disable() without the cancel() of line 68
AsDisableFlagOnly ==
  /\ asm' = [asm EXCEPT !.enabled = FALSE]
  /\ UNCHANGED asRest

\* disable()
AsDisable ==
  /\ asm' = AsCancelOf([asm EXCEPT !.enabled = FALSE])
  /\ UNCHANGED asRest

\* reset(), and cancel() called from outside
AsReset ==
  /\ asm' = AsCancelOf(asm)
  /\ UNCHANGED asRest

\* a task that cancel() would not stop (what Task.cancel() rules out)
AsDeafToCancel(r) == r.pc # "none"

\* a suspended task goes on where it stands unless its cancellation was
\* requested: then its next resumption raises CancelledError
AsResumes(r) == ~r.req

\* the thresholds the loop has yet to warn for at this value of
\* remaining_minutes, and the first of them in list order
AsDue(r) ==
  {i \in 1..Len(WarningIntervals) :
     r.rem <= WarningIntervals[i] /\ WarningIntervals[i] \notin r.warned}
AsFirstDue(r) == CHOOSE i \in AsDue(r) : \A j \in AsDue(r) : i <= j

\* the task starts: remaining_minutes = self.empty_minutes
AsBegin(t) ==
  /\ asm.run[t].pc = "new"
  /\ AsResumes(asm.run[t])
  /\ asm' = [asm EXCEPT !.run[t].pc = "run",
                        !.run[t].rem = asm.empty_minutes,
                        !.run[t].start = asm.empty_minutes]
  /\ UNCHANGED asRest

\* one step of the loop body: the next due warning (awaited), or the start
\* of the one-minute sleep; with no minute left, the on_shutdown call
AsRun(t) ==
  LET r == asm.run[t] IN
  /\ r.pc = "run"
  /\ AsResumes(r)
  /\ asm' =
       IF r.rem > 0
         THEN IF AsDue(r) # {}
                THEN LET w == WarningIntervals[AsFirstDue(r)] IN
                     [asm EXCEPT !.run[t].warned = r.warned \cup {w},
                                 !.run[t].warns = r.warns \cup {<<w, r.rem>>}]
                ELSE [asm EXCEPT !.run[t].pc = "sleep"]
         ELSE [asm EXCEPT !.run[t].pc = "shutdown",
                          !.run[t].shut = r.shut + 1]
  /\ UNCHANGED asRest

\* the sleep of 60 s ends: remaining_minutes -= 1
AsTick(t) ==
  LET r == asm.run[t] IN
  /\ r.pc = "sleep"
  /\ AsResumes(r)
  /\ asm' = [asm EXCEPT !.run[t].pc = "run",
                        !.run[t].rem = r.rem - 1,
                        !.run[t].decs = r.decs + 1]
  /\ UNCHANGED asRest

\* on_shutdown returns and the task ends
AsShutdownDone(t) ==
  /\ asm.run[t].pc = "shutdown"
  /\ AsResumes(asm.run[t])
  /\ asm' = [asm EXCEPT !.run[t].pc = "done"]
  /\ UNCHANGED asRest

\* the cancelled task is resumed: CancelledError ends it
AsCancelled(t) ==
  /\ asm.run[t].req
  /\ asm.run[t].pc \in {"new", "run", "sleep", "shutdown"}
  /\ asm' = [asm EXCEPT !.run[t].pc = "cancelled"]
  /\ UNCHANGED asRest

ASNext ==
  \/ \E n \in 0..MaxCount : AsCountChanged(n)
  \/ \E m \in MinuteChoices \cup {-1} : AsEnable(m)
  \/ AsDisable
  \/ AsReset
  \/ \E t \in Runs : AsBegin(t)
  \/ \E t \in Runs : AsRun(t)
  \/ \E t \in Runs : AsTick(t)
  \/ \E t \in Runs : AsShutdownDone(t)
  \/ \E t \in Runs : AsCancelled(t)

(* ======================= LogWatcher ==================================== *)

\* bounds: the player names in the log, the patterns one line can match,
\* the LogWatchers set_active_server makes, the line tasks not yet run,
\* the server processes alive at a time
NNames == 2
MaxMatches == 2
MaxWatchers == 2
MaxPending == 2
MaxLive == 2
MaxReadied == 2

Names == 1..NNames
Watchers == 1..MaxWatchers

\* a pattern table that tries the achievement pattern before the death one
PatternsAchievementFirst ==
  <<"SERVER_STARTED", "SERVER_STOPPING", "SERVER_STOPPED", "PLAYER_JOINED",
    "PLAYER_LEFT", "PLAYER_CHAT", "PLAYER_ACHIEVEMENT", "PLAYER_DIED",
    "RCON_STARTED", "WORLD_SAVED">>

\* LogWatcher.PATTERNS, in the order the dict is walked
PATTERNS ==
  <<"SERVER_STARTED", "SERVER_STOPPING", "SERVER_STOPPED", "PLAYER_JOINED",
    "PLAYER_LEFT", "PLAYER_CHAT", "PLAYER_DIED", "PLAYER_ACHIEVEMENT",
    "RCON_STARTED", "WORLD_SAVED">>

EventTypes == {PATTERNS[i] : i \in 1..Len(PATTERNS)}

\* the event types whose pattern captures a player name
PlayerTypes ==
  {"PLAYER_JOINED", "PLAYER_LEFT", "PLAYER_CHAT", "PLAYER_DIED",
   "PLAYER_ACHIEVEMENT"}

\* a log line, as the patterns see it: the patterns that find a match in
\* it (m) and the name their first group captures (player)
AllLines ==
  [m : {M \in SUBSET EventTypes : Cardinality(M) <= MaxMatches},
   player : Names]

\* the callbacks ServerManager registers, by event type
LwCallbacks ==
  [ty \in EventTypes |->
     CASE ty = "SERVER_STARTED" -> "_handle_server_ready"
       [] ty = "PLAYER_JOINED" -> "_handle_player_joined"
       [] ty = "PLAYER_LEFT" -> "_handle_player_left"
       [] OTHER -> "none"]

NoEvent == [event_type |-> "none", player |-> None]

\* the loop of parse_line over PATTERNS.items(): the index of the first
\* pattern that matches, 0 when none does
LwFirstMatch(line) ==
  LET hit == {i \in 1..Len(PATTERNS) : PATTERNS[i] \in line.m} IN
  IF hit = {} THEN 0 ELSE CHOOSE i \in hit : \A j \in hit : i <= j

\* _create_event
LwCreateEvent(ty, line) ==
  [event_type |-> ty,
   player |-> IF ty \in PlayerTypes THEN line.player ELSE None]

\* _update_state without the discard of a player who left
UpdateStateKeepsLeft(online, ev) ==
  CASE ev.event_type = "PLAYER_JOINED" /\ ev.player # None
         -> online \cup {ev.player}
    [] ev.event_type = "SERVER_STOPPING" -> {}
    [] OTHER -> online

\* _update_state
UpdateState(online, ev) ==
  CASE ev.event_type = "PLAYER_JOINED" /\ ev.player # None
         -> online \cup {ev.player}
    [] ev.event_type = "PLAYER_LEFT" /\ ev.player # None
         -> online \ {ev.player}
    [] ev.event_type = "SERVER_STOPPING" -> {}
    [] OTHER -> online

\* parse_line: the event of a line (NoEvent for None) and the set after it
ParseLine(online, line) ==
  LET i == LwFirstMatch(line) IN
  IF i = 0 THEN [event |-> NoEvent, online |-> online]
  ELSE LET ev == LwCreateEvent(PATTERNS[i], line) IN
       [event |-> ev, online |-> UpdateState(online, ev)]

\* the latest join/leave event of each player in the lines one watcher was
\* given since its last server-stopping event or reset
NothingSeen == [p \in Names |-> "none"]
LwSeen(seen, ev) ==
  CASE ev.event_type = "PLAYER_JOINED" -> [seen EXCEPT ![ev.player] = "join"]
    [] ev.event_type = "PLAYER_LEFT" -> [seen EXCEPT ![ev.player] = "left"]
    [] ev.event_type = "SERVER_STOPPING" -> NothingSeen
    [] OTHER -> seen

\* the orchestrator's watchers: whether its ProcessHandler is running
\* (is_running), the server processes alive and read from (live), the
\* current watcher (cur), each watcher's
\* _online_players (online) and what it was given (seen), the line tasks
\* created and not yet run (queue), the tasks suspended in a notification
\* callback (notifying), the last count passed to on_player_count_changed
\* with the size of the set the event was applied to (passed, zeros before
\* the first), and the last line given to process_line with its outcome
\* (fed, an empty line before the first), and the calls of
\* _handle_server_ready, each of which runs the server-start callbacks,
\* since the watcher in use was last reset for a process that ended (readied)
LwFresh ==
  [is_running |-> FALSE, live |-> 0, cur |-> 1, readied |-> 0,
   online |-> [w \in Watchers |-> {}],
   seen |-> [w \in Watchers |-> NothingSeen],
   queue |-> << >>, notifying |-> 0,
   passed |-> [n |-> 0, size |-> 0],
   fed |-> [line |-> [m |-> {}, player |-> 1], event |-> NoEvent,
            changed |-> FALSE, called |-> "none"]]

lwRest == <<phVars, smVars, rc, asm, bm, pk, callVars>>

\* process_line on watcher w up to its first suspension: parse_line with
\* the state update, then the callback registered for the event type; the
\* join and leave handlers pass self._log_watcher.player_count on
LwProcess(l, w, line) ==
  LET r == ParseLine(l.online[w], line)
      h == IF r.event = NoEvent THEN "none"
           ELSE LwCallbacks[r.event.event_type]
      l1 == [l EXCEPT !.online[w] = r.online,
                      !.seen[w] = LwSeen(l.seen[w], r.event),
                      !.readied = IF h = "_handle_server_ready"
                                    THEN @ + 1 ELSE @,
                      !.fed = [line |-> line, event |-> r.event,
                               changed |-> r.online # l.online[w],
                               called |-> h]]
  IN IF h \in {"_handle_player_joined", "_handle_player_left"}
       THEN [l1 EXCEPT !.passed =
               [n |-> Cardinality(l1.online[l1.cur]),
                size |-> Cardinality(l1.online[w])]]
       ELSE l1

\* await log_watcher.process_line(line), the caller being the only task
LwFeed(line) ==
  /\ LwProcess(lw, lw.cur, line).readied <= MaxReadied
  /\ lw' = LwProcess(lw, lw.cur, line)
  /\ UNCHANGED lwRest

\* LogWatcher.reset() (_handle_process_exit)
LwReset ==
  /\ lw' = [lw EXCEPT !.online[lw.cur] = {}, !.seen[lw.cur] = NothingSeen,
                      !.readied = 0]
  /\ UNCHANGED lwRest

\* the lines the process prints in the runs with line tasks: a join, a
\* leave, the stopping line, a line without event
TaskLines ==
  {l \in AllLines :
     l.m \in {{"PLAYER_JOINED"}, {"PLAYER_LEFT"}, {"SERVER_STOPPING"}, {}}}

\* ServerManager.start(), refused while running. Two calls that overlap
\* both pass the is_running test before either process is tracked: both
\* spawn, and the manager tracks one of the two processes
LwStart(two) ==
  /\ ~lw.is_running
  /\ lw.live + (IF two THEN 2 ELSE 1) <= MaxLive
  /\ lw' = [lw EXCEPT !.is_running = TRUE,
                      !.live = @ + (IF two THEN 2 ELSE 1)]
  /\ UNCHANGED lwRest

\* the tracked process ends. Its reader has created the tasks of its last
\* lines one loop iteration before the end is noticed, so they have run.
\* After an exit _handle_process_exit resets the watcher; after kill()
\* the reader is cancelled and nothing is reset
LwProcEnd(killed) ==
  /\ lw.is_running
  /\ lw.queue = << >>
  /\ lw' = [lw EXCEPT !.is_running = FALSE,
                      !.live = @ - 1,
                      !.online[lw.cur] = IF killed THEN @ ELSE {},
                      !.seen[lw.cur] = IF killed THEN @ ELSE NothingSeen]
  /\ UNCHANGED lwRest

\* a process the manager does not track ends
LwUntrackedEnd ==
  /\ lw.live > (IF lw.is_running THEN 1 ELSE 0)
  /\ lw' = [lw EXCEPT !.live = @ - 1]
  /\ UNCHANGED lwRest

\* a reader gets a line: the stdout callback of ServerManager.start
\* creates a task for process_line of the watcher current at that moment
LwLineRead(line) ==
  /\ lw.live > 0
  /\ Len(lw.queue) < MaxPending
  /\ lw' = [lw EXCEPT !.queue = Append(@, [w |-> lw.cur, line |-> line])]
  /\ UNCHANGED lwRest

\* the oldest line task runs up to its first suspension
LwTaskRun ==
  /\ lw.queue # << >>
  /\ LwProcess(lw, Head(lw.queue).w, Head(lw.queue).line).fed.called # "none"
       => lw.notifying < MaxPending
  /\ lw' = LET t == Head(lw.queue)
               l == LwProcess(lw, t.w, t.line)
           IN [l EXCEPT !.queue = Tail(lw.queue),
                        !.notifying = IF l.fed.called = "none" THEN @
                                      ELSE @ + 1]
  /\ UNCHANGED lwRest

\* a line task's notification callbacks return and the task ends
LwNotifyDone ==
  /\ lw.notifying > 0
  /\ lw' = [lw EXCEPT !.notifying = @ - 1]
  /\ UNCHANGED lwRest

\* set_active_server, refused while running -> _init_components: a new
\* LogWatcher (and a new AutoShutdownManager)
LwSetActive ==
  /\ ~lw.is_running
  /\ lw.cur < MaxWatchers
  /\ lw' = [lw EXCEPT !.cur = @ + 1]
  /\ UNCHANGED lwRest

\* lines given to one watcher one after the other
CLNext ==
  \/ \E line \in AllLines : LwFeed(line)
  \/ LwReset

\* the orchestrator's line tasks
LWNext ==
  \/ \E two \in BOOLEAN : LwStart(two)
  \/ \E killed \in BOOLEAN : LwProcEnd(killed)
  \/ LwUntrackedEnd
  \/ \E line \in TaskLines : LwLineRead(line)
  \/ LwTaskRun
  \/ LwNotifyDone
  \/ LwSetActive

(* ======================= BackupManager ================================= *)

\* bounds: the tasks calling the backup API, the archive names of the
\* concurrent runs, the BackupManagers set_active_server makes, the records
\* of a database list, the largest keep_count, the rotations of one run
NBmCallers == 2
NFiles == 2
MaxMgrs == 2
MaxRecords == 5
MaxKeep == 2
MaxRotations == 1

BmCallers == 1..NBmCallers
Mgrs == 1..MaxMgrs

\* BackupType
BackupTypes == {"AUTO", "MANUAL", "PRE_SHUTDOWN"}

\* a database list of at most n Backup records, newest first; the record at
\* position i has the filename i
DbLists(n) ==
  UNION {[1..k -> BackupTypes] : k \in 0..n}

\* a call of the backup API: the method (fn), where it stands (pc), the
\* BackupManager it was made on (mgr), its archive (file), its result
\* (ret), for a restore whether it found the archive missing (missing) and
\* whether it deleted the world (wiped), for a rotation the list it was
\* given (db), the positions still to delete (todo), the positions it
\* reports as deleted (deleted) and the files there were at its start
BmIdleCall ==
  [fn |-> "none", pc |-> "idle", mgr |-> 0, file |-> 0, ret |-> "none",
   missing |-> FALSE, wiped |-> FALSE,
   db |-> << >>, todo |-> << >>, deleted |-> << >>, files0 |-> {}]

\* BackupManager(backups_dir, keep_count = k) of the active server, the
\* server's backup directory holding every archive, its world in place
BmFresh(k) ==
  [keep_count |-> k, cur |-> 1, lock |-> [m \in Mgrs |-> None],
   files |-> 1..MaxRecords, world |-> "present", nrot |-> 0,
   call |-> [c \in BmCallers |-> BmIdleCall]]

bmRest == <<phVars, smVars, rc, asm, lw, pk, callVars>>

\* the call of c ends with result r; 'async with self._lock' is left
BmReturn(b, c, r) ==
  [b EXCEPT !.call[c].pc = "idle", !.call[c].ret = r,
            !.lock = [m \in Mgrs |-> IF b.lock[m] = c THEN None ELSE b.lock[m]]]

BmBegin(b, c, fn, f) ==
  [b EXCEPT !.call[c] = [BmIdleCall EXCEPT !.fn = fn, !.mgr = b.cur,
                                           !.file = f]]

\* create_backup up to 'async with self._lock'; the filename is the
\* timestamp of the call
BmCreate(c, f) ==
  /\ bm.call[c].pc = "idle"
  /\ bm' = IF bm.world = "gone"
             THEN BmReturn(BmBegin(bm, c, "create", f), c, "FileNotFoundError")
             ELSE [BmBegin(bm, c, "create", f) EXCEPT !.call[c].pc = "lock"]
  /\ UNCHANGED bmRest

\* restore_backup up to 'async with self._lock'
BmRestore(c, f) ==
  /\ bm.call[c].pc = "idle"
  /\ bm' = IF f \notin bm.files
             THEN BmReturn([BmBegin(bm, c, "restore", f)
                              EXCEPT !.call[c].missing = TRUE],
                           c, "FileNotFoundError")
             ELSE [BmBegin(bm, c, "restore", f) EXCEPT !.call[c].pc = "lock"]
  /\ UNCHANGED bmRest

\* the lock of the call's BackupManager is acquired and the job is handed
\* to the executor
BmLocked(c) ==
  /\ bm.call[c].pc = "lock"
  /\ bm.lock[bm.call[c].mgr] = None
  /\ bm' = [bm EXCEPT !.lock[bm.call[c].mgr] = c, !.call[c].pc = "exec"]
  /\ UNCHANGED bmRest

\* _create_archive has run
BmCreateDone(c) ==
  /\ bm.call[c].pc = "exec" /\ bm.call[c].fn = "create"
  /\ bm' = BmReturn([bm EXCEPT !.files = @ \cup {bm.call[c].file}], c,
                    IF bm.world = "gone" THEN "RuntimeError" ELSE "Backup")
  /\ UNCHANGED bmRest

\* _restore_archive, first half: shutil.rmtree(world_path)
BmRestoreRmtree(c) ==
  /\ bm.call[c].pc = "exec" /\ bm.call[c].fn = "restore"
  /\ bm' = [bm EXCEPT !.world = "gone",
                      !.call[c].wiped = (bm.world # "gone"),
                      !.call[c].pc = "extract"]
  /\ UNCHANGED bmRest

\* _restore_archive, second half: tarfile.open(archive_path), extractall
BmRestoreExtract(c) ==
  /\ bm.call[c].pc = "extract"
  /\ bm' = IF bm.call[c].file \in bm.files
             THEN BmReturn([bm EXCEPT !.world = "restored"], c, "None")
             ELSE BmReturn([bm EXCEPT !.call[c].missing = TRUE], c,
                           "RuntimeError")
  /\ UNCHANGED bmRest

\* the positions of all the records of a list
BmAllRecords(db) == 1..Len(db)

\* auto_backups: the positions of the AUTO records of a list
BmAutoBackups(db) == {i \in 1..Len(db) : db[i] = "AUTO"}

\* the positions of a set in increasing order, without the first k
RECURSIVE BmSlice(_, _)
BmSlice(S, k) ==
  IF S = {} THEN << >>
  ELSE LET i == CHOOSE x \in S : \A y \in S : x <= y IN
       IF k > 0 THEN BmSlice(S \ {i}, k - 1)
       ELSE <<i>> \o BmSlice(S \ {i}, 0)

\* rotate_auto_backups(server, db_backups) up to its first deletion
BmRotate(c, db) ==
  /\ bm.call[c].pc = "idle"
  /\ bm.nrot < MaxRotations
  /\ bm' =
       LET auto == BmAutoBackups(db)
           b == [BmBegin(bm, c, "rotate", 0)
                   EXCEPT !.call[c].db = db, !.call[c].files0 = bm.files,
                          !.nrot = @ + 1]
       IN IF Cardinality(auto) <= bm.keep_count
            THEN BmReturn(b, c, "deleted")
            ELSE [b EXCEPT !.call[c].todo = BmSlice(auto, bm.keep_count),
                           !.call[c].pc = "rotating"]
  /\ UNCHANGED bmRest

\* delete_backup_file for the next record of to_delete: the unlink is handed
\* to the executor if the file exists; after the last record the call ends
BmRotateStep(c) ==
  /\ bm.call[c].pc = "rotating"
  /\ bm' =
       LET t == bm.call[c].todo IN
       IF t = << >> THEN BmReturn(bm, c, "deleted")
       ELSE IF Head(t) \in bm.files
              THEN [bm EXCEPT !.call[c].pc = "unlink"]
              ELSE [bm EXCEPT !.call[c].todo = Tail(t),
                              !.call[c].deleted = Append(@, Head(t))]
  /\ UNCHANGED bmRest

\* backup_path.unlink has run
BmUnlinked(c) ==
  /\ bm.call[c].pc = "unlink"
  /\ bm' = LET t == bm.call[c].todo IN
           [bm EXCEPT !.files = @ \ {Head(t)},
                      !.call[c].todo = Tail(t),
                      !.call[c].deleted = Append(@, Head(t)),
                      !.call[c].pc = "rotating"]
  /\ UNCHANGED bmRest

\* set_active_server -> _init_components: BackupManager(...) anew, with a
\* new lock, for the same backup directory
BmSetActive ==
  /\ bm.cur < MaxMgrs
  /\ bm' = [bm EXCEPT !.cur = @ + 1]
  /\ UNCHANGED bmRest

\* the backup API called by overlapping tasks
BMNext ==
  \/ \E c \in BmCallers : \E f \in 1..NFiles : BmCreate(c, f)
  \/ \E c \in BmCallers : \E f \in 1..NFiles : BmRestore(c, f)
  \/ \E c \in BmCallers : BmLocked(c)
  \/ \E c \in BmCallers : BmCreateDone(c)
  \/ \E c \in BmCallers : BmRestoreRmtree(c)
  \/ \E c \in BmCallers : BmRestoreExtract(c)
  \/ \E c \in BmCallers : \E db \in DbLists(NFiles) : BmRotate(c, db)
  \/ \E c \in BmCallers : BmRotateStep(c)
  \/ \E c \in BmCallers : BmUnlinked(c)
  \/ BmSetActive

\* rotate_auto_backups called on any list, by one task
ROTNext ==
  \/ \E db \in DbLists(MaxRecords) : BmRotate(1, db)
  \/ BmRotateStep(1)
  \/ BmUnlinked(1)

(* ======================= RconPacket ==================================== *)

\* bound: the characters of a payload
MaxPayload == 2

\* the request ids, type tags and characters (code points: one to four
\* bytes in UTF-8, none of them NUL) the packets are made of
PkIds == {-2147483647 - 1, -1, 0, 1, 256, 2147483647}
PkTypes == {-1, 0, 2, 3}
PkChars == {65, 233, 8364, 128512}

Packets ==
  [request_id : PkIds, packet_type : PkTypes,
   payload : UNION {[1..n -> PkChars] : n \in 0..MaxPayload}]

\* struct.pack("<i", n): four bytes, little-endian, two's complement
PkPackInt(n) ==
  LET n1 == n \div 256
      n2 == n1 \div 256
      n3 == n2 \div 256
  IN <<n % 256, n1 % 256, n2 % 256, n3 % 256>>

\* struct.unpack("<i", b)
PkUnpackInt(b) ==
  LET hi == IF b[4] >= 128 THEN b[4] - 256 ELSE b[4]
  IN ((hi * 256 + b[3]) * 256 + b[2]) * 256 + b[1]

\* str.encode("utf-8") of one character
PkUtf8(cp) ==
  IF cp < 128 THEN <<cp>>
  ELSE IF cp < 2048 THEN <<192 + (cp \div 64), 128 + (cp % 64)>>
  ELSE IF cp < 65536
    THEN <<224 + (cp \div 4096), 128 + ((cp \div 64) % 64), 128 + (cp % 64)>>
  ELSE <<240 + (cp \div 262144), 128 + ((cp \div 4096) % 64),
         128 + ((cp \div 64) % 64), 128 + (cp % 64)>>

RECURSIVE PkEncodeStr(_)
PkEncodeStr(str) ==
  IF str = << >> THEN << >> ELSE PkUtf8(Head(str)) \o PkEncodeStr(Tail(str))

\* bytes.decode("utf-8", errors="replace"): a lead byte with its
\* continuation bytes gives the character, anything else U+FFFD
PkIsCont(b, i) == i <= Len(b) /\ b[i] >= 128 /\ b[i] < 192
RECURSIVE PkDecodeStr(_)
PkDecodeStr(b) ==
  IF b = << >> THEN << >>
  ELSE LET h == b[1] IN
    IF h < 128 THEN <<h>> \o PkDecodeStr(Tail(b))
    ELSE IF h >= 192 /\ h < 224 /\ PkIsCont(b, 2)
      THEN <<(h - 192) * 64 + (b[2] - 128)>>
           \o PkDecodeStr(SubSeq(b, 3, Len(b)))
    ELSE IF h >= 224 /\ h < 240 /\ PkIsCont(b, 2) /\ PkIsCont(b, 3)
      THEN <<((h - 224) * 64 + (b[2] - 128)) * 64 + (b[3] - 128)>>
           \o PkDecodeStr(SubSeq(b, 4, Len(b)))
    ELSE IF h >= 240 /\ h < 248 /\ PkIsCont(b, 2) /\ PkIsCont(b, 3)
            /\ PkIsCont(b, 4)
      THEN <<(((h - 240) * 64 + (b[2] - 128)) * 64 + (b[3] - 128)) * 64
              + (b[4] - 128)>>
           \o PkDecodeStr(SubSeq(b, 5, Len(b)))
    ELSE <<65533>> \o PkDecodeStr(Tail(b))

\* RconPacket.encode
PkEncode(p) ==
  LET payload_bytes == PkEncodeStr(p.payload) \o <<0, 0>>
      length == 4 + 4 + Len(payload_bytes)
  IN PkPackInt(length) \o PkPackInt(p.request_id) \o PkPackInt(p.packet_type)
     \o payload_bytes

\* data[12:-1]
PkPayloadKeepsNul(data) == SubSeq(data, 13, Len(data) - 1)

\* data[12:-2]
PkPayloadBytes(data) == SubSeq(data, 13, Len(data) - 2)

\* raise ValueError("Packet too short")
PkValueError == [raised |-> "ValueError"]

\* a decode that asks for the twelve header bytes only
PkDecodeHeaderOnly(data) ==
  IF Len(data) < 12 THEN PkValueError
  ELSE [request_id |-> PkUnpackInt(SubSeq(data, 5, 8)),
        packet_type |-> PkUnpackInt(SubSeq(data, 9, 12)),
        payload |-> PkDecodeStr(PkPayloadBytes(data))]

\* RconPacket.decode
PkDecode(data) ==
  IF Len(data) < 14 THEN PkValueError
  ELSE [request_id |-> PkUnpackInt(SubSeq(data, 5, 8)),
        packet_type |-> PkUnpackInt(SubSeq(data, 9, 12)),
        payload |-> PkDecodeStr(PkPayloadBytes(data))]

\* a packet (packet), its encoding (data) and what decode made of it (out)
PkOf(p) == [pc |-> "new", packet |-> p, data |-> << >>, out |-> "none"]
PkFresh == PkOf([request_id |-> 0, packet_type |-> 0, payload |-> << >>])

pkRest == <<phVars, smVars, rc, asm, lw, bm, callVars>>

PkEncoded ==
  /\ pk.pc = "new"
  /\ pk' = [pk EXCEPT !.pc = "encoded", !.data = PkEncode(pk.packet)]
  /\ UNCHANGED pkRest

PkDecoded ==
  /\ pk.pc = "encoded"
  /\ pk' = [pk EXCEPT !.pc = "decoded", !.out = PkDecode(pk.data)]
  /\ UNCHANGED pkRest

\* decode is given only the first n bytes of an encoded packet
PkDecodedPrefix(n) ==
  /\ pk.pc = "encoded" /\ n <= Len(pk.data)
  /\ pk' = [pk EXCEPT !.pc = "prefix", !.data = SubSeq(pk.data, 1, n),
                      !.out = PkDecode(SubSeq(pk.data, 1, n))]
  /\ UNCHANGED pkRest

PKNext ==
  \/ PkEncoded
  \/ PkDecoded
  \/ \E n \in 0..(14 + 4 * MaxPayload) : PkDecodedPrefix(n)

(* ======================= ServerManager.stop ============================ *)
(* server_manager.py:296-319 with the ProcessHandler.stop it delegates to  *)
(* (process_handler.py:157-201), for one call on a server whose process is *)
(* running, with backup_on_stop set or not and the world directory there   *)
(* or not.                                                                 *)

StFresh ==
  [backup_on_stop |-> TRUE, world |-> TRUE, pc |-> "idle", backup |-> "none",
   os |-> "alive", is_running |-> TRUE, process |-> TRUE, stop_cmd |-> FALSE,
   termed |-> FALSE, killed |-> FALSE, ret |-> "none"]

stRest == <<phVars, smVars, rc, asm, lw, bm, pk, sc, dp, ro>>

\* a stop() whose try block lets every exception of create_backup through
StSwallowsNothing(exc) == FALSE

\* "except Exception: pass" around create_backup (server_manager.py:310-314)
StSwallows(exc) == exc \in {"FileNotFoundError", "RuntimeError"}

StRaised(s) == [s EXCEPT !.pc = "done", !.ret = "raised"]

\* ProcessHandler.stop up to its first await: the running check, then
\* send_command("stop") writes to stdin and awaits drain()
StHandlerStop(s) ==
  IF ~(s.is_running /\ s.process)
  THEN [s EXCEPT !.pc = "done", !.ret = "false"]
  ELSE [s EXCEPT !.pc = "drain", !.stop_cmd = TRUE]

\* create_backup has ended with outcome res: an exception that stop() does
\* not swallow ends stop(), otherwise the supervisor is asked to stop
StAfterBackup(s, res) ==
  IF res # "written" /\ ~StSwallows(res)
  THEN StRaised([s EXCEPT !.backup = res])
  ELSE StHandlerStop([s EXCEPT !.backup = res])

\* ServerManager.stop up to its first await. create_backup raises
\* FileNotFoundError at once when the world directory is missing and
\* otherwise archives in the executor
StCall ==
  /\ st.pc = "idle"
  /\ st' = IF ~(st.process /\ st.is_running)
           THEN [st EXCEPT !.pc = "done", !.ret = "false"]
           ELSE IF ~st.backup_on_stop THEN StHandlerStop(st)
           ELSE IF ~st.world THEN StAfterBackup(st, "FileNotFoundError")
           ELSE [st EXCEPT !.pc = "archiving"]
  /\ UNCHANGED stRest

\* the executor job is over: the archive is written, or _create_archive
\* raised and create_backup raises RuntimeError
StArchived(ok) ==
  /\ st.pc = "archiving"
  /\ st' = StAfterBackup(st, IF ok THEN "written" ELSE "RuntimeError")
  /\ UNCHANGED stRest

\* drain() returned; self._process.wait() is evaluated: with _process None
\* (the reader task has cleaned up) AttributeError leaves stop()
StDrained ==
  /\ st.pc = "drain"
  /\ st' = IF st.process THEN [st EXCEPT !.pc = "wait1"] ELSE StRaised(st)
  /\ UNCHANGED stRest

\* one of the waits of ProcessHandler.stop sees the process gone
StWaited ==
  /\ st.pc \in {"wait1", "wait2", "wait3"} /\ st.os = "dead"
  /\ st' = [st EXCEPT !.pc = "done", !.ret = "true"]
  /\ UNCHANGED stRest

\* the graceful wait timed out: terminate(), wait 5 s
StTimeout1 ==
  /\ st.pc = "wait1" /\ st.os = "alive"
  /\ st' = [st EXCEPT !.pc = "wait2", !.termed = TRUE]
  /\ UNCHANGED stRest

\* the 5 s wait timed out: kill(), wait
StTimeout2 ==
  /\ st.pc = "wait2" /\ st.os = "alive"
  /\ st' = [st EXCEPT !.pc = "wait3", !.killed = TRUE, !.os = "dead"]
  /\ UNCHANGED stRest

\* the process exits: by itself, on the stop command or on SIGTERM
StProcExit ==
  /\ st.os = "alive"
  /\ st' = [st EXCEPT !.os = "dead"]
  /\ UNCHANGED stRest

\* the reader task after the exit: flag cleared, exit callbacks (the
\* orchestrator's creates a task and returns), _cleanup()
StReaderExit ==
  /\ st.os = "dead" /\ st.is_running
  /\ st' = [st EXCEPT !.is_running = FALSE, !.process = FALSE]
  /\ UNCHANGED stRest

STNext ==
  \/ StCall
  \/ \E ok \in BOOLEAN : StArchived(ok)
  \/ StDrained
  \/ StWaited
  \/ StTimeout1
  \/ StTimeout2
  \/ StProcExit
  \/ StReaderExit

(* ======================= ServerManager.send_command ==================== *)
(* server_manager.py:332-353 with the RconClient.command it calls          *)
(* (rcon.py:120-155): commands sent one after the other to a manager whose *)
(* client is connected or not, authenticated or not, whose process runs or *)
(* not, against a server that accepts the configured password or not.      *)

\* commands sent in one behaviour
MaxCommands == 3

ScFresh ==
  [is_connected |-> FALSE, authenticated |-> FALSE, running |-> FALSE,
   password_ok |-> FALSE, pc |-> "idle", n |-> 0, socket |-> 0, stdin |-> 0,
   via |-> "none", ret |-> "none"]

scRest == <<phVars, smVars, rc, asm, lw, bm, pk, st, dp, ro>>

\* send_command returns r
ScReturn(s, r) == [s EXCEPT !.pc = "idle", !.n = @ + 1, !.ret = r]

\* RconClient.command behind its "if not self._authenticated" test: the
\* COMMAND packet is written to the socket and the response awaited
ScExchange(s) == [s EXCEPT !.pc = "exchange", !.socket = @ + 1]

\* ServerManager.send_command up to its first await
ScSendCommand ==
  /\ sc.pc = "idle" /\ sc.n < MaxCommands
  /\ sc' = IF sc.is_connected
           THEN IF sc.authenticated
                THEN ScExchange([sc EXCEPT !.via = "rcon"])
                ELSE [sc EXCEPT !.via = "rcon", !.pc = "connect"]
           ELSE IF sc.running
           THEN ScReturn([sc EXCEPT !.via = "stdin", !.stdin = @ + 1], "none")
           ELSE ScReturn([sc EXCEPT !.via = "none"], "none")
  /\ UNCHANGED scRest

\* command() found the client unauthenticated and called connect(): the
\* connection is refused, or opened and the password accepted or not
ScConnectDone(opened) ==
  /\ sc.pc = "connect"
  /\ sc' = IF ~opened THEN ScReturn(sc, "none")
           ELSE IF sc.password_ok
           THEN ScExchange([sc EXCEPT !.is_connected = TRUE, !.authenticated = TRUE])
           ELSE ScReturn([sc EXCEPT !.is_connected = TRUE, !.authenticated = FALSE],
                         "none")
  /\ UNCHANGED scRest

\* the response arrives: its payload is returned
ScReplied ==
  /\ sc.pc = "exchange"
  /\ sc' = ScReturn(sc, "text")
  /\ UNCHANGED scRest

\* wait_for gives up after the timeout: None
ScTimedOut ==
  /\ sc.pc = "exchange"
  /\ sc' = ScReturn(sc, "none")
  /\ UNCHANGED scRest

\* the connection breaks during the exchange: _send_packet disconnects
\* and returns None
ScConnLost ==
  /\ sc.pc = "exchange"
  /\ sc' = ScReturn([sc EXCEPT !.is_connected = FALSE, !.authenticated = FALSE],
                    "none")
  /\ UNCHANGED scRest

SCNext ==
  \/ ScSendCommand
  \/ \E opened \in BOOLEAN : ScConnectDone(opened)
  \/ ScReplied
  \/ ScTimedOut
  \/ ScConnLost

(* ======================= callback dispatch ============================= *)
(* The loop every dispatch site runs over its registered callbacks:        *)
(*   try: result = callback(x); if iscoroutine(result): await result       *)
(*   except Exception: pass                                                *)
(* ProcessHandler._read_output (stdout, stderr and exit callbacks),        *)
(* LogWatcher._trigger_callbacks (event callbacks), the ServerManager      *)
(* handlers (start, join, leave, crash and stop notifications).            *)

\* callbacks registered for the event
NDpCallbacks == 2

DpSites == {"stdout", "stderr", "exit", "event", "notification"}

\* what a callback does when called: return, raise an Exception, return a
\* coroutine that completes or raises an Exception once awaited, or return
\* a task (not a coroutine: never awaited by the dispatcher)
DpBehaviours == {"returns", "raises", "coroutine", "coroutine_raises", "task"}

DpFresh ==
  [site |-> "stdout", cbs |-> [i \in 1..NDpCallbacks |-> "returns"],
   pc |-> "idle", i |-> 1, invoked |-> {}]

dpRest == <<phVars, smVars, rc, asm, lw, bm, pk, st, sc, ro>>

\* a dispatch loop without the except clause
DpCatchesNothing(site) == FALSE

\* "except Exception" around the call and the await of each callback
DpCatches(site) == site \in DpSites

\* the exception of callback i is swallowed and the loop goes on, or it
\* leaves the dispatcher
DpAfterRaise(d) ==
  IF DpCatches(d.site) THEN [d EXCEPT !.pc = "loop", !.i = @ + 1]
  ELSE [d EXCEPT !.pc = "propagated"]

\* the event occurs: the loop over the callbacks begins
DpDispatch ==
  /\ dp.pc = "idle"
  /\ dp' = [dp EXCEPT !.pc = "loop", !.i = 1]
  /\ UNCHANGED dpRest

\* result = callback(x), up to the await of a coroutine it returned
DpInvoke ==
  /\ dp.pc = "loop" /\ dp.i <= NDpCallbacks
  /\ LET d == [dp EXCEPT !.invoked = @ \cup {dp.i}]
         b == dp.cbs[dp.i] IN
     dp' = IF b = "raises" THEN DpAfterRaise(d)
           ELSE IF b \in {"coroutine", "coroutine_raises"}
           THEN [d EXCEPT !.pc = "await"]
           ELSE [d EXCEPT !.i = @ + 1]
  /\ UNCHANGED dpRest

\* the awaited coroutine is over
DpAwaited ==
  /\ dp.pc = "await"
  /\ dp' = IF dp.cbs[dp.i] = "coroutine_raises" THEN DpAfterRaise(dp)
           ELSE [dp EXCEPT !.pc = "loop", !.i = @ + 1]
  /\ UNCHANGED dpRest

\* the loop is over: the dispatcher goes on with its own work
DpEnd ==
  /\ dp.pc = "loop" /\ dp.i > NDpCallbacks
  /\ dp' = [dp EXCEPT !.pc = "done"]
  /\ UNCHANGED dpRest

DPNext == DpDispatch \/ DpInvoke \/ DpAwaited \/ DpEnd

(* ======================= ProcessHandler._read_output =================== *)
(* One reader task: read_stream for stdout and for stderr, run together by *)
(* asyncio.gather, each calling the callback registered for its stream on  *)
(* every line, and after both the wait for the process and the exit        *)
(* handling.                                                               *)

MaxLines == 2

Streams == {"stdout", "stderr"}

\* what the callback of a stream does with a line: return at once, return
\* a coroutine that completes later, return a coroutine that never completes
RoKinds == {"returns", "slow", "never"}

RoFresh ==
  [kind |-> [s \in Streams |-> "returns"],
   os |-> "alive",
   printed |-> [s \in Streams |-> 0],     \* lines the process has written
   pipe |-> [s \in Streams |-> 0],        \* lines written and not yet read
   got |-> [s \in Streams |-> 0],         \* lines given to the callback
   rd |-> [s \in Streams |-> "read"],     \* read_stream: read, cb, eof
   pc |-> "gather",                       \* _read_output: gather, wait, exited
   is_running |-> TRUE]

roRest == <<phVars, smVars, rc, asm, lw, bm, pk, st, sc, dp>>

\* the process writes a line to one of its streams
RoPrint(s) ==
  /\ ro.os = "alive" /\ ro.printed[s] < MaxLines
  /\ ro' = [ro EXCEPT !.printed[s] = @ + 1, !.pipe[s] = @ + 1]
  /\ UNCHANGED roRest

\* the process exits; its ends of the pipes are closed
RoProcExit ==
  /\ ro.os = "alive"
  /\ ro' = [ro EXCEPT !.os = "dead"]
  /\ UNCHANGED roRest

\* read_stream: readline() returns a line, the callback is called with it,
\* and a coroutine it returns is awaited before the next readline()
RoReadLine(s) ==
  /\ ro.rd[s] = "read" /\ ro.pipe[s] > 0
  /\ ro' = [ro EXCEPT !.pipe[s] = @ - 1, !.got[s] = @ + 1,
                      !.rd[s] = IF ro.kind[s] = "returns" THEN "read" ELSE "cb"]
  /\ UNCHANGED roRest

\* the awaited coroutine of the callback completes
RoCallbackDone(s) ==
  /\ ro.rd[s] = "cb" /\ ro.kind[s] = "slow"
  /\ ro' = [ro EXCEPT !.rd[s] = "read"]
  /\ UNCHANGED roRest

\* read_stream: readline() returns b"" at end of file, the loop breaks
RoEOF(s) ==
  /\ ro.rd[s] = "read" /\ ro.pipe[s] = 0 /\ ro.os = "dead"
  /\ ro' = [ro EXCEPT !.rd[s] = "eof"]
  /\ UNCHANGED roRest

\* asyncio.gather returns once both read_stream coroutines have returned
RoGathered ==
  /\ ro.pc = "gather" /\ \A s \in Streams : ro.rd[s] = "eof"
  /\ ro' = [ro EXCEPT !.pc = "wait"]
  /\ UNCHANGED roRest

\* self._process.wait() returns the exit code: is_running = False, and the
\* exit callbacks follow
RoExitSeen ==
  /\ ro.pc = "wait" /\ ro.os = "dead"
  /\ ro' = [ro EXCEPT !.pc = "exited", !.is_running = FALSE]
  /\ UNCHANGED roRest

RONext ==
  \/ \E s \in Streams : RoPrint(s)
  \/ RoProcExit
  \/ \E s \in Streams : RoReadLine(s)
  \/ \E s \in Streams : RoCallbackDone(s)
  \/ \E s \in Streams : RoEOF(s)
  \/ RoGathered
  \/ RoExitSeen

(* ======================= specifications ================================ *)

\* the ProcessHandler alone, its callers serializing their calls (the
\* contract of the supervisor)
\* the components at rest
CallsIdle == st = StFresh /\ sc = ScFresh /\ dp = DpFresh /\ ro = RoFresh

CompIdle ==
  /\ rc = RcFresh /\ asm = AsFresh(MaxMinutes) /\ lw = LwFresh
  /\ bm = BmFresh(0) /\ pk = PkFresh /\ CallsIdle

InitPH == PHInit /\ serial = TRUE /\ SMInit /\ mserial = TRUE /\ CompIdle
SpecPH == InitPH /\ [][PHNext]_vars

\* the ProcessHandler alone, operations of two tasks overlapping
InitPHC == PHInit /\ serial = FALSE /\ SMInit /\ mserial = TRUE /\ CompIdle
SpecPHC == InitPHC /\ [][PHNext]_vars

\* the ServerManager, one user task calling it at a time
InitSM == SMInit /\ mserial = TRUE /\ PHInit /\ serial = TRUE /\ CompIdle
SpecSM == InitSM /\ [][SMNext]_vars

\* the ServerManager, the calls of two user tasks overlapping, on a server
\* that no player joins
SMCNext ==
  \/ \E t \in Users : \E s \in Servers : SetActiveServer(t, s)
  \/ \E t \in Users : SMStart(t)
  \/ \E t \in Users : SMSpawnDone(t)
  \/ \E t \in Users : SMSpawnFail(t)
  \/ \E t \in Users : SMStop(t)
  \/ \E t \in Users : BackupAcquire(t)
  \/ \E t \in Users : BackupDone(t)
  \/ \E t \in Users : SMStopWaited(t)
  \/ \E t \in Users : SMStopTimeout(t)
  \/ \E t \in Users : SMKill(t)
  \/ \E t \in Users : SMKillWaited(t)
  \/ \E t \in Users : SMRestart(t)
  \/ \E t \in Users : SMRestartSleepDone(t)
  \/ \E t \in Users : SMRestore(t)
  \/ \E t \in Users : RestoreAcquire(t)
  \/ \E t \in Users : RestoreDone(t)
  \/ \E h \in Handlers : \E code \in ExitCodes : SMProcExit(h, code)
  \/ \E h \in Handlers : SMLineDone(h)
  \/ \E h \in Handlers : SMReaderExit(h)
  \/ \E h \in Handlers : SMExitResume(h)
  \/ SMRconConnect

InitSMC == SMInit /\ mserial = FALSE /\ PHInit /\ serial = TRUE /\ CompIdle
SpecSMC == InitSMC /\ [][SMCNext]_vars

\* the rest of the program at rest
RestIdle ==
  /\ PHInit /\ serial = TRUE /\ SMInit /\ mserial = TRUE
  /\ bm = BmFresh(0) /\ pk = PkFresh /\ CallsIdle

\* one RconClient, two tasks calling connect() and command() on it
InitRC == rc = RcFresh /\ asm = AsFresh(MaxMinutes) /\ lw = LwFresh /\ RestIdle
SpecRC == InitRC /\ [][RCNext]_vars

\* the same, the client's own steps (a wait that is over, a timeout that
\* has expired, a lock that is free) taken in the end; the server is free
\* never to answer and never to close
RcClientStep(c) ==
  \/ RcLockAcquired(c) \/ RcOpened(c) \/ RcOpenFailed(c)
  \/ RcRead(c) \/ (\E garbled \in BOOLEAN : RcReadMixed(c, garbled))
  \/ RcTimeout(c) \/ RcIOError(c)
SpecRCL ==
  InitRC /\ [][RCNext]_vars /\ \A c \in RcCallers : WF_vars(RcClientStep(c))

\* one LogWatcher given lines one by one
InitCL == lw = LwFresh /\ rc = RcFresh /\ asm = AsFresh(MaxMinutes) /\ RestIdle
SpecCL == InitCL /\ [][CLNext]_vars

\* the ServerManager's LogWatchers and the tasks it creates per line
InitLW == lw = LwFresh /\ rc = RcFresh /\ asm = AsFresh(MaxMinutes) /\ RestIdle
SpecLW == InitLW /\ [][LWNext]_vars

\* the BackupManagers of one server, called by two tasks
InitBM ==
  /\ bm = BmFresh(0) /\ pk = PkFresh /\ CallsIdle
  /\ rc = RcFresh /\ asm = AsFresh(MaxMinutes) /\ lw = LwFresh
  /\ PHInit /\ serial = TRUE /\ SMInit /\ mserial = TRUE
SpecBM == InitBM /\ [][BMNext]_vars

\* one rotation, with any keep_count
InitROT ==
  /\ \E k \in 0..MaxKeep : bm = BmFresh(k)
  /\ pk = PkFresh /\ CallsIdle
  /\ rc = RcFresh /\ asm = AsFresh(MaxMinutes) /\ lw = LwFresh
  /\ PHInit /\ serial = TRUE /\ SMInit /\ mserial = TRUE
SpecROT == InitROT /\ [][ROTNext]_vars

\* one RconPacket, encoded and decoded
InitPK ==
  /\ \E p \in Packets : pk = PkOf(p)
  /\ bm = BmFresh(0) /\ CallsIdle
  /\ rc = RcFresh /\ asm = AsFresh(MaxMinutes) /\ lw = LwFresh
  /\ PHInit /\ serial = TRUE /\ SMInit /\ mserial = TRUE
SpecPK == InitPK /\ [][PKNext]_vars

\* one ServerManager.stop() on a running server
InitST ==
  /\ \E b, w \in BOOLEAN : st = [StFresh EXCEPT !.backup_on_stop = b, !.world = w]
  /\ sc = ScFresh /\ dp = DpFresh /\ ro = RoFresh
  /\ rc = RcFresh /\ asm = AsFresh(MaxMinutes) /\ lw = LwFresh
  /\ bm = BmFresh(0) /\ pk = PkFresh
  /\ PHInit /\ serial = TRUE /\ SMInit /\ mserial = TRUE
SpecST == InitST /\ [][STNext]_vars

\* commands sent through one ServerManager
InitSC ==
  /\ \E c, a, r, p \in BOOLEAN :
       sc = [ScFresh EXCEPT !.is_connected = c, !.authenticated = a,
                            !.running = r, !.password_ok = p]
  /\ st = StFresh /\ dp = DpFresh /\ ro = RoFresh
  /\ rc = RcFresh /\ asm = AsFresh(MaxMinutes) /\ lw = LwFresh
  /\ bm = BmFresh(0) /\ pk = PkFresh
  /\ PHInit /\ serial = TRUE /\ SMInit /\ mserial = TRUE
SpecSC == InitSC /\ [][SCNext]_vars

\* one event dispatched to the callbacks registered for it
InitDP ==
  /\ \E site \in DpSites : \E cbs \in [1..NDpCallbacks -> DpBehaviours] :
       dp = [DpFresh EXCEPT !.site = site, !.cbs = cbs]
  /\ st = StFresh /\ sc = ScFresh /\ ro = RoFresh
  /\ rc = RcFresh /\ asm = AsFresh(MaxMinutes) /\ lw = LwFresh
  /\ bm = BmFresh(0) /\ pk = PkFresh
  /\ PHInit /\ serial = TRUE /\ SMInit /\ mserial = TRUE
SpecDP == InitDP /\ [][DPNext]_vars

\* one reader task, with any behaviour of the stdout and stderr callbacks
InitRO ==
  /\ \E k \in [Streams -> RoKinds] : ro = [RoFresh EXCEPT !.kind = k]
  /\ st = StFresh /\ sc = ScFresh /\ dp = DpFresh
  /\ rc = RcFresh /\ asm = AsFresh(MaxMinutes) /\ lw = LwFresh
  /\ bm = BmFresh(0) /\ pk = PkFresh
  /\ PHInit /\ serial = TRUE /\ SMInit /\ mserial = TRUE
SpecRO == InitRO /\ [][RONext]_vars

\* one AutoShutdownManager, made with any empty_minutes
InitAS == AsInit /\ rc = RcFresh /\ lw = LwFresh /\ RestIdle
SpecAS == InitAS /\ [][ASNext]_vars

(* ------------------- claims about the ProcessHandler ------------------- *)

\* some spawned process is alive in the operating system
OSAlive == \E g \in Gens : Alive(g)

\* no start / stop / kill / restart call is in flight
Quiet == \A c \in Callers : caller[c].fn = "idle"

\* C1: with serialized calls, whenever no operation is in flight (so also
\* right after stop() has returned and right after the process has exited
\* by itself) is_running is true exactly when the OS process is alive
C1_FlagMatchesLiveness == Quiet => (IsRunning <=> OSAlive)

\* C2: a process that has terminated and whose reader has ended had its
\* exit code recorded by passing it to every exit callback exactly once,
\* and no exit callback is ever called twice for one process
C2_ExitCallbacksExactlyOnce ==
  \A g \in Gens : \A i \in Callbacks :
    /\ Len(exit_calls[g][i]) <= 1
    /\ (Dead(g) /\ ReaderDone(g)) => (~is_running /\ exit_calls[g][i] = <<os[g].code>>)

\* C4: a stop() call that got past the not-running check always ends by
\* returning true, with the process it stopped exited, and never by raising
C4_StopReturnsTrue ==
  \A c \in Callers :
    caller[c].lastOp = "stop" =>
      /\ caller[c].ret \in {"true", "false"}
      /\ caller[c].ret = "true" => Dead(caller[c].lastTarget)

\* C5: all stop() calls on a process together, also two running
\* concurrently, deliver SIGTERM to it at most once and SIGKILL at most once
C5_NoDoubleSignal ==
  \A g \in Gens : sig_term[g] <= 1 /\ sig_kill[g] <= 1

(* ------------------- claims about the ServerManager -------------------- *)

\* C3: over any interleaving of the orchestrator's start, stop, restart and
\* kill, two starts issued concurrently included, at most one supervised
\* subprocess is alive
C3_AtMostOneProcess == Cardinality({h \in Handlers : HAlive(h)}) <= 1

\* C6: the idle-shutdown path never stops the process while players are
\* online: whenever the shutdown callback of a countdown has made the
\* orchestrator send the stop command, the classifier counted no player then
C6_NoIdleStopWithPlayers ==
  \A t \in Countdowns :
    (task[t].fn = "stop" /\ task[t].pc = "wait") => task[t].cnt = 0

\* C7: the ready signal is set, and the server-start callbacks fire, only for
\* a server-started line of the process the orchestrator currently runs
C7_ReadyOnlyFromRunning == ~stray_ready

\* C8: once the orchestrator's stop has returned True, or its kill has
\* returned, the protocol client is disconnected, the classifier's online set
\* is empty and no countdown is pending
C8_CleanAfterStop ==
  \A u \in Users :
    (task[u].lastOp = "kill" \/ (task[u].lastOp = "stop" /\ task[u].ret = "true"))
      => (~RconIsConnected /\ online_players = {} /\ ~IsCountingDown)

\* C9: for each process that has exited and whose reader and exit handling
\* have ended, exactly one registry was notified: the crash callbacks when the
\* exit code is not 0, the stop callbacks when it is 0
C9_OneRegistryNotified ==
  \A h \in Handlers :
    (HDead(h) /\ hand[h].reader # "streams" /\ hand[h].exit # "disc")
      => hand[h].notif = Notified(h)

\* C10: while a restore deletes and extracts the world directory no
\* supervised process is alive
C10_NoProcessDuringRestore ==
  world = "restoring" => \A h \in Handlers : ~HAlive(h)

(* ------------------- claims about the RconClient ----------------------- *)

\* the callers that have written a packet and wait for its response
RcInFlight == {c \in RcCallers : rc.call[c].pc \in {"read", "auth"}}

\* C11: at most one write-then-read exchange is in flight on the client at
\* any time, the authentication exchanges of connect() and of the reconnect
\* inside command() included
C11_OneExchangeInFlight == Cardinality(RcInFlight) <= 1

\* C12: a command() that returned a payload took it from the response whose
\* id is the id of the request it wrote
C12_PayloadOfOwnRequest ==
  \A c \in RcCallers :
    rc.call[c].ret = "payload" => rc.call[c].got = rc.call[c].rid

\* C13: a command() that failed by a timeout or by an I/O error returned None
\* and left the session unauthenticated
C13_FailureUnauthenticates ==
  \A c \in RcCallers :
    (rc.call[c].fn = "idle" /\ rc.call[c].why \in {"timeout", "io"})
      => (rc.call[c].ret \in {"none", "false"} /\ ~rc.call[c].auth)

(* ----------------------- AutoShutdownManager --------------------------- *)

\* the warnings of a countdown from m minutes: one per threshold, issued
\* when the remaining minutes equal the threshold
AsWarningsAtThreshold(m) ==
  {<<WarningIntervals[i], WarningIntervals[i]>> :
     i \in {j \in 1..Len(WarningIntervals) : WarningIntervals[j] <= m}}

\* C14: a countdown that ran to its end undisturbed has warned exactly
\* once per threshold, each time with that threshold as the minutes
\* remaining, has made exactly as many one-minute decrements as the
\* empty_minutes it started from, and has called on_shutdown exactly once.
C14_WarnAtThresholdThenShutdown ==
  \A t \in Runs :
    asm.run[t].pc = "done"
      => /\ asm.run[t].warns = AsWarningsAtThreshold(asm.run[t].start)
         /\ asm.run[t].decs = asm.run[t].start
         /\ asm.run[t].shut = 1

\* C15: once cancel() was requested on a countdown, that countdown makes
\* no further decrement, issues no further warning and never calls
\* on_shutdown: what it has done stays what it had done at the request.
C15_NothingAfterCancel ==
  \A t \in Runs :
    asm.run[t].req
      => <<asm.run[t].decs, Cardinality(asm.run[t].warns), asm.run[t].shut>>
           = SubSeq(asm.run[t].at, 1, 3)

\* a countdown cancelled in its one-minute sleep, after a decrement and a
\* warning, whose task has since been resumed and has ended
C15_CancelledMidSleep ==
  \E t \in Runs :
    /\ asm.run[t].pc = "cancelled"
    /\ asm.run[t].at[4] = "sleep"
    /\ asm.run[t].decs >= 1
    /\ asm.run[t].warns # {}

\* C16: a countdown is active only while the manager is enabled and the
\* player count it was last told is zero.
C16_CountdownOnlyEnabledAndEmpty ==
  AsIsCountingDown(asm) => (asm.enabled /\ asm.count = 0)

(* ----------------------- LogWatcher ------------------------------------ *)

\* C17: the online-player set of a watcher is the set of players whose
\* latest join/leave event, in the lines the watcher was given since its
\* last server-stopping event or reset, is a join.
C17_OnlineIsLatestJoins ==
  \A w \in Watchers :
    lw.online[w] = {p \in Names : lw.seen[w][p] = "join"}

\* two players had joined and the first one has just left: the set holds
\* the second one alone
C17_OneLeftOneStays ==
  /\ lw.fed.event = [event_type |-> "PLAYER_LEFT", player |-> 1]
  /\ lw.seen[1][2] = "join"
  /\ lw.online[1] = {2}

\* C18: a line that matches both the achievement pattern and the death
\* pattern is classified as player-achievement.
C18_AchievementBeforeDeath ==
  {"PLAYER_ACHIEVEMENT", "PLAYER_DIED"} \subseteq lw.fed.line.m
    => lw.fed.event.event_type = "PLAYER_ACHIEVEMENT"

\* C19: a line yields the event of the first pattern it matches in the
\* order started, stopping, stopped, joined, left, chat, died,
\* achievement, rcon-ready, world-saved; a line that matches no pattern
\* yields no event, no callback and no change of the online-player set.
C19_FirstMatchInFixedOrder ==
  LET order == <<"SERVER_STARTED", "SERVER_STOPPING", "SERVER_STOPPED",
                 "PLAYER_JOINED", "PLAYER_LEFT", "PLAYER_CHAT",
                 "PLAYER_DIED", "PLAYER_ACHIEVEMENT", "RCON_STARTED",
                 "WORLD_SAVED">>
      hit == {i \in 1..Len(order) : order[i] \in lw.fed.line.m}
  IN IF hit = {}
       THEN /\ lw.fed.event = NoEvent
            /\ lw.fed.called = "none"
            /\ ~lw.fed.changed
       ELSE \E i \in hit :
              /\ \A j \in hit : i <= j
              /\ lw.fed.event.event_type = order[i]

\* a line that matches the leave pattern and the chat pattern has been
\* classified as player-left, and has removed an online player
C19_LeaveBeforeChat ==
  /\ lw.fed.line.m = {"PLAYER_LEFT", "PLAYER_CHAT"}
  /\ lw.fed.event.event_type = "PLAYER_LEFT"
  /\ lw.fed.changed

\* C20: the count the join and leave handlers pass to
\* on_player_count_changed is the size of the online-player set the event
\* was just applied to.
C20_CountIsSizeAfterEvent == lw.passed.n = lw.passed.size

(* ----------------------- BackupManager --------------------------------- *)

\* the calls whose archive, restore or file deletion is running
BmInProgress ==
  {c \in BmCallers : bm.call[c].pc \in {"exec", "extract", "unlink"}}

\* C21: at most one archive, restore or backup-file deletion of the
\* server's backup directory is in progress at any time.
C21_OneBackupOperationAtATime == Cardinality(BmInProgress) <= 1

C23_MissingArchiveLeavesWorld ==
  \A c \in BmCallers :
    (bm.call[c].fn = "restore" /\ bm.call[c].missing)
      => (bm.call[c].ret = "FileNotFoundError" /\ ~bm.call[c].wiped)

(* ----------------------- RconPacket ------------------------------------ *)

\* C24: decoding the encoding of a packet gives a packet with the same
\* request id, type and payload.
C24_EncodeDecodeRoundTrip ==
  pk.pc = "decoded" => pk.out = pk.packet

\* a decoded packet with a negative request id and a payload of a
\* four-byte and a two-byte character
C24_NegativeIdWidePayload ==
  /\ pk.pc = "decoded"
  /\ pk.packet.request_id = -2147483647 - 1
  /\ pk.packet.payload = <<128512, 233>>
  /\ Len(pk.data) = 12 + 6 + 2

(* ----------------------- ProcessHandler.start -------------------------- *)

\* C25: whenever a process is alive a start() would be refused (is_running
\* is true), and a start() called while a process is alive returns False
\* at once (the already-running outcome), spawns nothing and leaves
\* _process, the running flag, the recorded exit code and the reader task
\* as they were.
C25_StartWhileActiveRefused ==
  /\ [](\A c \in Callers : (Free(c) /\ Primary(c) /\ OSAlive) => IsRunning)
  /\ [][\A c \in Callers :
          (StartCall(c) /\ OSAlive) =>
             /\ caller'[c].lastOp = "start" /\ caller'[c].ret = "false"
             /\ UNCHANGED <<process, is_running, exit_code, reader_task, os,
                            reader, nextGen>>]_vars

(* ----------------------- ServerManager.set_active_server --------------- *)

\* C26: set_active_server called while a process is alive changes neither
\* the active server nor any sub-component (it raises), and called when no
\* process is alive it makes the given server the active one with a fresh
\* backup manager, shutdown controller, log watcher and RCON client.
C26_SetActiveRefusedIffRunning ==
  [][\A t \in Users : \A s \in Servers :
       SetActiveServer(t, s) =>
          IF \E h \in Handlers : HAlive(h)
          THEN UNCHANGED <<active_server, hand, rcon, countdown_task,
                           backup_lock, online_players>>
          ELSE /\ active_server' = s /\ rcon' = "none"
               /\ countdown_task' = None /\ backup_lock' = None
               /\ online_players' = {}]_vars

(* ----------------------- ServerManager.stop ---------------------------- *)

\* C27: the stop command reaches the process only after the pre-shutdown
\* backup has been attempted when backup_on_stop is set, and whenever
\* stop() has ended, the backup having failed or not, the process is dead.
C27_StopBacksUpThenStops ==
  /\ (st.stop_cmd /\ st.backup_on_stop) => st.backup # "none"
  /\ st.pc = "done" => st.os = "dead"

\* stop() returned True after a backup that failed in the executor, the
\* process having ignored the stop command and SIGTERM
C27_StoppedAfterFailedBackup ==
  /\ st.pc = "done" /\ st.ret = "true"
  /\ st.backup = "RuntimeError" /\ st.killed

(* ----------------------- ServerManager.send_command -------------------- *)

\* C28: a command goes to the client when it is connected and otherwise to
\* stdin, where it returns no text; and while the process is running every
\* command that send_command has returned from was written to the socket
\* or to stdin.
C28_RconElseStdinNeverDropped ==
  /\ sc.via = "stdin" => sc.ret = "none"
  /\ sc.running => sc.socket + sc.stdin >= sc.n

(* ----------------------- RconClient.connect ---------------------------- *)

\* a connect() that returned True had read a response carrying the id of
\* its authentication request; one that returned False left the client
\* unauthenticated, after an id that differed if it had read one
C29_ConnectOutcome ==
  \A c \in RcCallers :
    /\ rc.call[c].ret = "true" => (rc.call[c].got = rc.call[c].rid /\ rc.call[c].auth)
    /\ rc.call[c].ret = "false" => ~rc.call[c].auth

\* C29: connect() returns True only on a response with the id of its one
\* authentication request, returns False and leaves the client
\* unauthenticated otherwise, and in either case returns: a server that
\* does not answer cannot keep it waiting for ever.
C29_ConnectDecidesInBoundedWait ==
  /\ []C29_ConnectOutcome
  /\ \A c \in RcCallers :
       (rc.call[c].outer = "connect") ~> (rc.call[c].fn = "idle")

(* ----------------------- callback dispatch ----------------------------- *)

\* C30: an exception raised by a callback, when called or when the
\* coroutine it returned is awaited, never leaves the dispatch loop, and
\* once the loop is over every registered callback has been called.
C30_CallbackErrorsIsolated ==
  /\ dp.pc # "propagated"
  /\ dp.pc = "done" => dp.invoked = 1..NDpCallbacks

\* the exit callbacks of the supervisor: the coroutine of the first raised
\* when awaited, the second was called all the same and the loop is over
C30_SecondExitCallbackStillCalled ==
  /\ dp.site = "exit" /\ dp.pc = "done"
  /\ dp.cbs[1] = "coroutine_raises" /\ dp.cbs[2] = "raises"
  /\ dp.invoked = {1, 2}

(* ----------------------- AutoShutdownManager, continued ----------------- *)

\* the countdown tasks that are still to run and that nobody asked to cancel
AsLive(a) ==
  {t \in Runs : a.run[t].pc \in {"new", "run", "sleep", "shutdown"}
                /\ ~a.run[t].req}

\* C31: on an enabled manager on_player_count_changed(n) with n > 0 leaves
\* no countdown active and has requested the cancellation of the one that
\* was; with n = 0 and no countdown active it creates exactly one new
\* countdown task, which begins at empty_minutes; with n = 0 and a
\* countdown active it changes no task at all; and at no time is there more
\* than one countdown that has not been asked to stop.
C31_CountChangeCancelsOrStartsOnce ==
  /\ [](Cardinality(AsLive(asm)) <= 1)
  /\ [][\A n \in 0..MaxCount :
          (AsCountChanged(n) /\ asm.enabled) =>
            IF n > 0
              THEN /\ ~AsIsCountingDown(asm')
                   /\ AsLive(asm') = {}
                   /\ asm'.nrun = asm.nrun
              ELSE IF AsIsCountingDown(asm)
                THEN /\ asm'.run = asm.run
                     /\ asm'.countdown_task = asm.countdown_task
                     /\ asm'.nrun = asm.nrun
                ELSE /\ asm'.nrun = asm.nrun + 1
                     /\ asm'.countdown_task = asm'.nrun
                     /\ AsLive(asm') = {asm'.nrun}
                     /\ \A t \in Runs \ {asm'.nrun} :
                          asm'.run[t] = asm.run[t]]_vars
  /\ [][\A t \in Runs :
          AsBegin(t) => (asm'.run[t].rem = asm.empty_minutes
                         /\ asm'.run[t].decs = 0)]_vars

\* a first countdown was cancelled by a player count above zero while it
\* slept, and the count of zero after it started a second one, now asleep
\* after its first decrement
C31_SecondCountdownAfterJoin ==
  /\ asm.enabled /\ asm.count = 0 /\ asm.countdown_task = 2
  /\ asm.run[1].req /\ asm.run[1].at[4] = "sleep"
  /\ asm.run[2].pc = "sleep" /\ asm.run[2].decs >= 1 /\ ~asm.run[2].req

\* C32: disable() leaves the manager disabled with no countdown active and
\* the one that was active asked to stop; while the manager is disabled no
\* on_player_count_changed creates or changes a countdown task; and only
\* enable() turns a disabled manager into an enabled one.
C32_DisabledStartsNoCountdown ==
  /\ [][AsDisable => /\ ~asm'.enabled
                     /\ ~AsIsCountingDown(asm')
                     /\ AsLive(asm') = {}
                     /\ asm'.nrun = asm.nrun]_vars
  /\ [][\A n \in 0..MaxCount :
          (AsCountChanged(n) /\ ~asm.enabled) =>
            /\ asm'.nrun = asm.nrun
            /\ asm'.run = asm.run
            /\ asm'.countdown_task = asm.countdown_task]_vars
  /\ [][(~asm.enabled /\ asm'.enabled) =>
          \E m \in MinuteChoices \cup {-1} : AsEnable(m)]_vars

\* a manager with a positive empty_minutes, disabled while its countdown
\* slept after a decrement; the countdown has ended on its cancellation, the
\* player count last reported is zero and no second countdown was created
C32_DisabledMidCountdownStaysIdle ==
  /\ asm.empty_minutes > 0 /\ ~asm.enabled /\ asm.count = 0
  /\ asm.nrun = 1 /\ asm.countdown_task = None
  /\ asm.run[1].pc = "cancelled" /\ asm.run[1].at[4] = "sleep"
  /\ asm.run[1].decs >= 1 /\ asm.run[1].shut = 0

\* C39: within one countdown no two warning callbacks carry the same
\* minutes-remaining value.
C39_WarningsCarryDistinctMinutes ==
  \A t \in Runs :
    \A v, w \in asm.run[t].warns : v # w => v[2] # w[2]

(* ----------------------- ProcessHandler, continued --------------------- *)

\* C36: a process that start() has spawned and that has not exited is the
\* one the supervisor tracks: the running flag is set, _process is that
\* process, _reader_task is its reader and that reader is reading its streams.
C36_LiveProcessStaysTracked ==
  \A g \in Gens :
    Alive(g) => /\ is_running
                /\ process = g
                /\ reader_task = g
                /\ reader[g].pc = "streams"

\* C34: a restart() that has returned did not return False, and when it
\* returned True the process it started is the only one alive or was the
\* last one to live: no process started before it is still alive.  (A
\* restart() ended by the exception of a failed spawn is left aside.)
C34_RestartStopsThenStarts ==
  \A c \in Callers :
    caller[c].lastOp = "restart" =>
      /\ caller[c].ret # "false"
      /\ caller[c].ret = "true" =>
           \A g \in Gens : Alive(g) => g = caller[c].lastTarget

(* ----------------------- BackupManager, continued ---------------------- *)

\* C38: two create_backup calls that have both returned a Backup record
\* have not returned the same filename.
C38_BackupsHaveOwnFiles ==
  \A c, d \in BmCallers :
    ( /\ c # d
      /\ bm.call[c].fn = "create" /\ bm.call[c].ret = "Backup"
      /\ bm.call[d].fn = "create" /\ bm.call[d].ret = "Backup" )
      => bm.call[c].file # bm.call[d].file

(* ----------------------- ProcessHandler._read_output ------------------ *)

\* C33: a reader is never held in a callback while a later line of its
\* stream waits unread or while the process has exited and its exit is
\* still to be detected.
C33_ReadersNeverWaitOnCallbacks ==
  \A s \in Streams :
    ro.rd[s] = "cb" => (ro.pipe[s] = 0 /\ ro.os = "alive")

(* ----------------------- RconPacket, continued ------------------------- *)

\* C35: an encoded packet is twelve header bytes, the UTF-8 bytes of the
\* payload and two NUL bytes; the header is the little-endian integers
\* 8 + payload bytes + 2, request id and type; and decode raises ValueError
\* on exactly the buffers of fewer than 14 bytes.
C35_PacketLayoutAndMinimumLength ==
  /\ pk.pc \in {"encoded", "decoded"} =>
       LET body == PkEncodeStr(pk.packet.payload)
           n == Len(body)
           d == pk.data
       IN /\ Len(d) = 12 + n + 2
          /\ d[1] + 256 * d[2] + 65536 * d[3] + 16777216 * d[4] = 8 + n + 2
          /\ PkUnpackInt(SubSeq(d, 5, 8)) = pk.packet.request_id
          /\ PkUnpackInt(SubSeq(d, 9, 12)) = pk.packet.packet_type
          /\ SubSeq(d, 13, 12 + n) = body
          /\ d[13 + n] = 0 /\ d[14 + n] = 0
          /\ \A i \in 1..Len(d) : d[i] \in 0..255
  /\ pk.pc = "prefix" => (pk.out = PkValueError <=> Len(pk.data) < 14)

\* decode was given the first 13 bytes of the 15-byte encoding of a packet
\* with a one-byte payload, and raised ValueError
C35_ThirteenBytesRejected ==
  /\ pk.pc = "prefix" /\ Len(pk.data) = 13 /\ pk.out = PkValueError
  /\ pk.packet.payload = <<65>>

(* ----------------------- ServerManager, continued ---------------------- *)

\* C37: while the process the orchestrator started last is alive and has
\* printed its server-started line, the ready signal is set.
C37_ReadyHeldUntilExit ==
  \A h \in Handlers :
    (sm_process = h /\ HAlive(h) /\ hand[h].done) => server_ready

(* ----------------------- LogWatcher, continued ------------------------- *)

\* C40: the lines of one process make _handle_server_ready, and with it
\* the server-start callbacks, run at most once.
C40_StartCallbacksOncePerProcess == lw.readied <= 1

====
